---- MODULE Spec2Model ----
(***************************************************************************)
(* Model of the harmonic compatibility engine of Intune                    *)
(* (backend/services/harmonicCompatibility.js), of the ChatGPT             *)
(* compatibility service and of the track route that uses both.            *)
(*                                                                         *)
(* The engine is a class with one field, circleOfFifths, and pure methods. *)
(* A behaviour of the model is one call: the initial state holds the call  *)
(* (method and arguments), the single step of the called method computes   *)
(* the return value.  Strings that the code inspects character by          *)
(* character (key strings, tempo strings) are sequences of one-character   *)
(* strings; JavaScript values that may be null or undefined are tagged     *)
(* records.  The HTTP requests a call issues through fetch are logged in   *)
(* fetches; the engine issues none.                                        *)
(***************************************************************************)
EXTENDS Integers, Sequences, FiniteSets, TLC

VARIABLES circleOfFifths, call, pc, ret, fetches

vars == <<circleOfFifths, call, pc, ret, fetches>>

(***************************************************************************)
(* Bounds of the model.                                                    *)
(***************************************************************************)
\* tempo strings "0" .. "MaxBpm" are enumerated (plus the tempos of the tests)
MaxBpm == 48
\* tempo strings "-1" .. "-MaxNegBpm" are enumerated
MaxNegBpm == 8
\* longest candidate list handed to findCompatibleTracks
MaxCandidates == 3
\* callers that share one engine instance
NumCallers == 2
\* longest list of tracks the ChatGPT service hands to the track route
MaxGptTracks == 6

(***************************************************************************)
(* JavaScript values.                                                      *)
(***************************************************************************)
Str(s) == [type |-> "string", chars |-> s]
Num(n) == [type |-> "number", n |-> n]
Undefined == [type |-> "undefined"]
Null == [type |-> "null"]

IsStr(v) == v.type = "string"

\* !v for the values the model passes around (strings, null, undefined)
Falsy(v) == v.type \in {"undefined", "null"} \/ (IsStr(v) /\ v.chars = <<>>)

(***************************************************************************)
(* Characters and the string methods the engine uses.                      *)
(***************************************************************************)
UpperCase == <<"A", "B", "C", "D", "E", "F", "G", "H", "I", "J", "K", "L", "M",
               "N", "O", "P", "Q", "R", "S", "T", "U", "V", "W", "X", "Y", "Z">>
LowerCase == <<"a", "b", "c", "d", "e", "f", "g", "h", "i", "j", "k", "l", "m",
               "n", "o", "p", "q", "r", "s", "t", "u", "v", "w", "x", "y", "z">>
Digits == <<"0", "1", "2", "3", "4", "5", "6", "7", "8", "9">>

ToLowerChar(c) ==
    IF \E i \in 1..26 : UpperCase[i] = c
    THEN LowerCase[CHOOSE i \in 1..26 : UpperCase[i] = c]
    ELSE c

\* String.prototype.toLowerCase
toLowerCase(s) == [i \in 1..Len(s) |-> ToLowerChar(s[i])]

\* the characters \s and trim() treat as white space (those the inputs use)
IsWhiteSpace(c) == c \in {" ", "\t"}

SetMin(S) == CHOOSE x \in S : \A y \in S : x <= y
SetMax(S) == CHOOSE x \in S : \A y \in S : y <= x

\* String.prototype.trim
trim(s) ==
    LET solid == {i \in 1..Len(s) : ~IsWhiteSpace(s[i])}
    IN  IF solid = {} THEN <<>> ELSE SubSeq(s, SetMin(solid), SetMax(solid))

\* String.prototype.endsWith
endsWith(s, suffix) ==
    /\ Len(s) >= Len(suffix)
    /\ SubSeq(s, Len(s) - Len(suffix) + 1, Len(s)) = suffix

\* String.prototype.slice(0, -1)
sliceDropLast(s) == SubSeq(s, 1, Len(s) - 1)

(***************************************************************************)
(* The literals of parseKey.                                               *)
(***************************************************************************)
UNKNOWN == <<"U", "n", "k", "n", "o", "w", "n">>
MAJOR == <<"m", "a", "j", "o", "r">>
MINOR == <<"m", "i", "n", "o", "r">>
MAJ == <<"m", "a", "j">>
MIN == <<"m", "i", "n">>
M == <<"m">>

(***************************************************************************)
(* constructor: the circle-of-fifths table, keyed by canonical key name.   *)
(***************************************************************************)
CircleEntries ==
    << <<<<"C">>, 0>>, <<<<"G">>, 1>>, <<<<"D">>, 2>>, <<<<"A">>, 3>>,
       <<<<"E">>, 4>>, <<<<"B">>, 5>>, <<<<"F", "#">>, 6>>, <<<<"G", "b">>, 6>>,
       <<<<"C", "#">>, 7>>, <<<<"D", "b">>, 7>>, <<<<"A", "b">>, 8>>,
       <<<<"E", "b">>, 9>>, <<<<"B", "b">>, 10>>, <<<<"F">>, 11>>,
       <<<<"A", "m">>, 0>>, <<<<"E", "m">>, 1>>, <<<<"B", "m">>, 2>>,
       <<<<"F", "#", "m">>, 3>>, <<<<"C", "#", "m">>, 4>>,
       <<<<"G", "#", "m">>, 5>>, <<<<"D", "#", "m">>, 6>>,
       <<<<"E", "b", "m">>, 6>>, <<<<"A", "#", "m">>, 7>>,
       <<<<"B", "b", "m">>, 7>>, <<<<"F", "m">>, 8>>, <<<<"C", "m">>, 9>>,
       <<<<"G", "m">>, 10>>, <<<<"D", "m">>, 11>> >>

\* the literal with Gb entered one position early
NewCircleOfFifths_slip == [CircleEntries EXCEPT ![8] = <<<<"G", "b">>, 5>>]

\* the object literal: an insertion-ordered list of (key, position) entries
NewCircleOfFifths == CircleEntries

\* this.circleOfFifths[name]: the entry's position, undefined when absent
Lookup(table, name) ==
    IF \E i \in 1..Len(table) : table[i][1] = name
    THEN Num(table[CHOOSE i \in 1..Len(table) : table[i][1] = name][2])
    ELSE Undefined

(***************************************************************************)
(* parseKey                                                                *)
(***************************************************************************)
ModeTokens == {MAJOR, MINOR, MAJ, MIN, M}

NoMatch == [matched |-> FALSE]

isNoteLetter(c) == ToLowerChar(c) \in {"a", "b", "c", "d", "e", "f", "g"}
isAccidental(c) == c = "#" \/ ToLowerChar(c) = "b"

\* the text after leading white space
skipWhiteSpace(s) ==
    LET solid == {i \in 1..Len(s) : ~IsWhiteSpace(s[i])}
    IN  IF solid = {} THEN <<>> ELSE SubSeq(s, SetMin(solid), Len(s))

\* (major|minor|maj|min|m)?$ against the text after the note and the white
\* space: the group is undefined when it takes no part in the match
modeMatch(token) ==
    IF token = <<>> THEN [matched |-> TRUE, mode |-> Undefined]
    ELSE [matched |-> toLowerCase(token) \in ModeTokens, mode |-> Str(token)]

\* \s*(major|minor|maj|min|m)?$ against the text after the note
tailMatch(rest) == modeMatch(skipWhiteSpace(rest))

noteMatch(note, tail) ==
    IF tail.matched THEN [matched |-> TRUE, note |-> note, mode |-> tail.mode]
    ELSE NoMatch

\* normalized.match(/^([A-G][#b]?)\s*(major|minor|maj|min|m)?$/i): the flag i
\* makes every literal of the pattern, the note letter included, match in either
\* case.  [#b]? is greedy and falls back to empty when the rest does not match.
keyPatternMatch(s) ==
    IF Len(s) = 0 \/ ~isNoteLetter(s[1]) THEN NoMatch
    ELSE IF /\ Len(s) >= 2
            /\ isAccidental(s[2])
            /\ tailMatch(SubSeq(s, 3, Len(s))).matched
    THEN noteMatch(SubSeq(s, 1, 2), tailMatch(SubSeq(s, 3, Len(s))))
    ELSE noteMatch(SubSeq(s, 1, 1), tailMatch(SubSeq(s, 2, Len(s))))

InvalidKey == [key |-> Null, mode |-> Null, isValid |-> FALSE,
               note |-> Undefined, circlePosition |-> Undefined]

\* the returned object with note: normalizedKey
parsedKey_keyAsNote(table, normalizedKey, note, mode) ==
    [key |-> Str(normalizedKey), note |-> Str(normalizedKey), mode |-> Str(mode),
     isValid |-> TRUE, circlePosition |-> Lookup(table, normalizedKey)]

\* the returned object of a valid key
parsedKey(table, normalizedKey, note, mode) ==
    [key |-> Str(normalizedKey), note |-> Str(note), mode |-> Str(mode),
     isValid |-> TRUE, circlePosition |-> Lookup(table, normalizedKey)]

\* const normalizedKey = mode === "minor" ? `${note}m` : note
withNormalizedKey(table, note, mode) ==
    parsedKey(table, IF mode = MINOR THEN note \o M ELSE note, note, mode)

\* the second test without its || mode === "m"
normalizeMode_noBareM(mode) ==
    IF mode = MAJ THEN MAJOR
    ELSE IF mode = MIN THEN MINOR
    ELSE mode

\* if (mode === "maj") mode = "major"; if (mode === "min" || mode === "m") ...
normalizeMode(mode) ==
    IF mode = MAJ THEN MAJOR
    ELSE IF mode = MIN \/ mode = M THEN MINOR
    ELSE mode

\* let [, note, mode] = match, then the if (!mode) block
modeOrDefault(match) ==
    IF match.mode = Undefined
    THEN (IF endsWith(match.note, M) THEN MINOR ELSE MAJOR)
    ELSE match.mode.chars

noteOrStripped(match) ==
    IF match.mode = Undefined /\ endsWith(match.note, M)
    THEN sliceDropLast(match.note)
    ELSE match.note

\* the mode normalised without mode = mode.toLowerCase()
parseMatch_noLowerCase(table, match) ==
    IF ~match.matched THEN InvalidKey
    ELSE withNormalizedKey(table, noteOrStripped(match),
                           normalizeMode(modeOrDefault(match)))

parseMatch(table, match) ==
    IF ~match.matched THEN InvalidKey
    ELSE withNormalizedKey(table, noteOrStripped(match),
                           normalizeMode(toLowerCase(modeOrDefault(match))))

parseKey(table, keyString) ==
    IF Falsy(keyString) \/ keyString = Str(UNKNOWN) THEN InvalidKey
    ELSE parseMatch(table, keyPatternMatch(trim(keyString.chars)))

(***************************************************************************)
(* calculateKeyCompatibility and its helpers                               *)
(***************************************************************************)
KeyResult(compatibility, score, reason) ==
    [compatibility |-> compatibility, score |-> score, reason |-> reason]

\* the relativePairs literal of areRelativeKeys: <<major, minor>>
relativePairs ==
    << <<<<"C">>, <<"A", "m">>>>, <<<<"G">>, <<"E", "m">>>>,
       <<<<"D">>, <<"B", "m">>>>, <<<<"A">>, <<"F", "#", "m">>>>,
       <<<<"E">>, <<"C", "#", "m">>>>, <<<<"B">>, <<"G", "#", "m">>>>,
       <<<<"F", "#">>, <<"D", "#", "m">>>>, <<<<"G", "b">>, <<"E", "b", "m">>>>,
       <<<<"C", "#">>, <<"A", "#", "m">>>>, <<<<"D", "b">>, <<"B", "b", "m">>>>,
       <<<<"A", "b">>, <<"F", "m">>>>, <<<<"E", "b">>, <<"C", "m">>>>,
       <<<<"B", "b">>, <<"G", "m">>>>, <<<<"F">>, <<"D", "m">>>> >>

\* areRelativeKeys with the second disjunct of the test lost
areRelativeKeys_oneWay(parsed1, parsed2) ==
    \E i \in 1..Len(relativePairs) :
        parsed1.key = Str(relativePairs[i][1]) /\ parsed2.key = Str(relativePairs[i][2])

areRelativeKeys(parsed1, parsed2) ==
    \E i \in 1..Len(relativePairs) :
        \/ (parsed1.key = Str(relativePairs[i][1]) /\ parsed2.key = Str(relativePairs[i][2]))
        \/ (parsed1.key = Str(relativePairs[i][2]) /\ parsed2.key = Str(relativePairs[i][1]))

areParallelKeys(parsed1, parsed2) ==
    parsed1.note = parsed2.note /\ parsed1.mode # parsed2.mode

Abs(x) == IF x < 0 THEN -x ELSE x
MinOf(x, y) == IF x <= y THEN x ELSE y

calculateCircleDistance(pos1, pos2) == MinOf(Abs(pos1 - pos2), 12 - Abs(pos1 - pos2))

\* both circle positions are defined and the circle distance is d
atDistance(parsed1, parsed2, d) ==
    /\ parsed1.circlePosition # Undefined
    /\ parsed2.circlePosition # Undefined
    /\ calculateCircleDistance(parsed1.circlePosition.n, parsed2.circlePosition.n) = d

\* the body of calculateKeyCompatibility with the circle distance computed
\* before the parallel-key test
classifyKeys_distanceFirst(parsed1, parsed2) ==
    IF ~parsed1.isValid \/ ~parsed2.isValid
    THEN KeyResult("unknown", 0, "Invalid key data")
    ELSE IF parsed1.key = parsed2.key
    THEN KeyResult("perfect", 100, "Same key")
    ELSE IF areRelativeKeys(parsed1, parsed2)
    THEN KeyResult("excellent", 95, "Relative major/minor keys")
    ELSE IF atDistance(parsed1, parsed2, 1)
    THEN KeyResult("good", 80, "Adjacent keys in circle of fifths")
    ELSE IF atDistance(parsed1, parsed2, 2)
    THEN KeyResult("fair", 60, "Two steps apart in circle of fifths")
    ELSE IF atDistance(parsed1, parsed2, 3)
    THEN KeyResult("acceptable", 40, "Three steps apart in circle of fifths")
    ELSE IF areParallelKeys(parsed1, parsed2)
    THEN KeyResult("very-good", 85, "Parallel major/minor keys")
    ELSE KeyResult("poor", 20, "Keys are not harmonically related")

\* the body of calculateKeyCompatibility with && for || in the validity test
classifyKeys_bothInvalid(parsed1, parsed2) ==
    IF ~parsed1.isValid /\ ~parsed2.isValid
    THEN KeyResult("unknown", 0, "Invalid key data")
    ELSE IF parsed1.key = parsed2.key
    THEN KeyResult("perfect", 100, "Same key")
    ELSE IF areRelativeKeys(parsed1, parsed2)
    THEN KeyResult("excellent", 95, "Relative major/minor keys")
    ELSE IF areParallelKeys(parsed1, parsed2)
    THEN KeyResult("very-good", 85, "Parallel major/minor keys")
    ELSE IF atDistance(parsed1, parsed2, 1)
    THEN KeyResult("good", 80, "Adjacent keys in circle of fifths")
    ELSE IF atDistance(parsed1, parsed2, 2)
    THEN KeyResult("fair", 60, "Two steps apart in circle of fifths")
    ELSE IF atDistance(parsed1, parsed2, 3)
    THEN KeyResult("acceptable", 40, "Three steps apart in circle of fifths")
    ELSE KeyResult("poor", 20, "Keys are not harmonically related")

\* the body of calculateKeyCompatibility, from the two parsed keys on
classifyKeys(parsed1, parsed2) ==
    IF ~parsed1.isValid \/ ~parsed2.isValid
    THEN KeyResult("unknown", 0, "Invalid key data")
    ELSE IF parsed1.key = parsed2.key
    THEN KeyResult("perfect", 100, "Same key")
    ELSE IF areRelativeKeys(parsed1, parsed2)
    THEN KeyResult("excellent", 95, "Relative major/minor keys")
    ELSE IF areParallelKeys(parsed1, parsed2)
    THEN KeyResult("very-good", 85, "Parallel major/minor keys")
    ELSE IF atDistance(parsed1, parsed2, 1)
    THEN KeyResult("good", 80, "Adjacent keys in circle of fifths")
    ELSE IF atDistance(parsed1, parsed2, 2)
    THEN KeyResult("fair", 60, "Two steps apart in circle of fifths")
    ELSE IF atDistance(parsed1, parsed2, 3)
    THEN KeyResult("acceptable", 40, "Three steps apart in circle of fifths")
    ELSE KeyResult("poor", 20, "Keys are not harmonically related")

calculateKeyCompatibility(table, key1, key2) ==
    classifyKeys(parseKey(table, key1), parseKey(table, key2))

(***************************************************************************)
(* calculateBpmCompatibility                                               *)
(***************************************************************************)
NaN == [type |-> "NaN"]
isNaN(x) == x.type = "NaN"

HexLetters == <<"a", "b", "c", "d", "e", "f">>

\* the value of character c as a digit of the radix, -1 when it is none
DigitValue(c, radix) ==
    IF \E i \in 1..10 : Digits[i] = c
    THEN (CHOOSE i \in 1..10 : Digits[i] = c) - 1
    ELSE IF radix = 16 /\ \E i \in 1..6 : HexLetters[i] = ToLowerChar(c)
    THEN 9 + (CHOOSE i \in 1..6 : HexLetters[i] = ToLowerChar(c))
    ELSE -1

RECURSIVE DigitsValue(_, _, _)
DigitsValue(ds, radix, acc) ==
    IF ds = <<>> THEN acc
    ELSE DigitsValue(Tail(ds), radix, acc * radix + DigitValue(Head(ds), radix))

\* ToString of the values the model passes to parseInt
ToJsString(v) ==
    IF IsStr(v) THEN v.chars
    ELSE IF v.type = "undefined" THEN <<"u", "n", "d", "e", "f", "i", "n", "e", "d">>
    ELSE <<"n", "u", "l", "l">>

\* the longest prefix of s made of digits of the radix
digitRun(s, radix) ==
    LET stops == {i \in 1..Len(s) : DigitValue(s[i], radix) < 0}
    IN  IF stops = {} THEN s ELSE SubSeq(s, 1, SetMin(stops) - 1)

digitsToNumber(run, radix, sign) ==
    IF run = <<>> THEN NaN ELSE Num(sign * DigitsValue(run, radix, 0))

\* an 0x or 0X prefix selects radix 16 and is skipped
parseUnsigned(s, sign) ==
    IF Len(s) >= 2 /\ s[1] = "0" /\ ToLowerChar(s[2]) = "x"
    THEN digitsToNumber(digitRun(SubSeq(s, 3, Len(s)), 16), 16, sign)
    ELSE digitsToNumber(digitRun(s, 10), 10, sign)

parseSigned(s) ==
    IF s # <<>> /\ s[1] = "-" THEN parseUnsigned(Tail(s), -1)
    ELSE IF s # <<>> /\ s[1] = "+" THEN parseUnsigned(Tail(s), 1)
    ELSE parseUnsigned(s, 1)

\* parseInt(v) without a radix: leading white space is skipped, then an optional
\* sign, then an optional 0x prefix that selects radix 16, then the longest run
\* of digits; NaN when that run is empty.
parseInt(v) == parseSigned(skipWhiteSpace(ToJsString(v)))

\* Math.abs(a / b - r) < 0.1 in IEEE double arithmetic, r given in tenths
\* (20 for 2, 15 for 1.5).  A zero divisor makes the quotient infinite, which is
\* near nothing; otherwise the comparison is that of the exact quotient (the
\* doubles a/b - r and 0.1 order as the exact values do for all integer tempos).
NearRatio(a, b, tenths) ==
    b # 0 /\ Abs(10 * a - tenths * b) < Abs(b)

BpmResult(compatibility, score, reason) ==
    [compatibility |-> compatibility, score |-> score, reason |-> reason]

\* the linear tiers, from difference <= 10 on
linearTiers(difference) ==
    IF difference <= 10
    THEN BpmResult("good", 80,
            "Within 10 BPM (" \o ToString(difference) \o " BPM difference)")
    ELSE IF difference <= 20
    THEN BpmResult("fair", 60,
            "Within 20 BPM (" \o ToString(difference) \o " BPM difference)")
    ELSE IF difference <= 40
    THEN BpmResult("acceptable", 40, ToString(difference) \o " BPM difference")
    ELSE BpmResult("poor", 20,
            "Large BPM difference (" \o ToString(difference) \o " BPM)")

\* the body of calculateBpmCompatibility with the "within 5 BPM" tier tested
\* before the tempo ratios
classifyTempos_differenceFirst(num1, num2) ==
    IF isNaN(num1) \/ isNaN(num2)
    THEN BpmResult("unknown", 0, "Invalid BPM data")
    ELSE IF Abs(num1.n - num2.n) = 0
    THEN BpmResult("perfect", 100, "Exact BPM match")
    ELSE IF Abs(num1.n - num2.n) <= 5
    THEN BpmResult("excellent", 95,
            "Within 5 BPM (" \o ToString(Abs(num1.n - num2.n)) \o " BPM difference)")
    ELSE IF NearRatio(num1.n, num2.n, 20) \/ NearRatio(num2.n, num1.n, 20)
    THEN BpmResult("excellent", 90, "Half/double BPM relationship")
    ELSE IF NearRatio(num1.n, num2.n, 15) \/ NearRatio(num2.n, num1.n, 15)
    THEN BpmResult("good", 75, "3/2 BPM relationship")
    ELSE linearTiers(Abs(num1.n - num2.n))

\* the body of calculateBpmCompatibility, from the two parsed numbers on;
\* ratio1 = num1 / num2, ratio2 = num2 / num1
classifyTempos(num1, num2) ==
    IF isNaN(num1) \/ isNaN(num2)
    THEN BpmResult("unknown", 0, "Invalid BPM data")
    ELSE IF Abs(num1.n - num2.n) = 0
    THEN BpmResult("perfect", 100, "Exact BPM match")
    ELSE IF NearRatio(num1.n, num2.n, 20) \/ NearRatio(num2.n, num1.n, 20)
    THEN BpmResult("excellent", 90, "Half/double BPM relationship")
    ELSE IF NearRatio(num1.n, num2.n, 15) \/ NearRatio(num2.n, num1.n, 15)
    THEN BpmResult("good", 75, "3/2 BPM relationship")
    ELSE IF Abs(num1.n - num2.n) <= 5
    THEN BpmResult("excellent", 95,
            "Within 5 BPM (" \o ToString(Abs(num1.n - num2.n)) \o " BPM difference)")
    ELSE linearTiers(Abs(num1.n - num2.n))

\* calculateBpmCompatibility with the half/double test made on ratio1 only: a
\* second tempo near twice the first falls through to the difference tiers
calculateBpmCompatibility_ratio1Only(bpm1, bpm2) ==
    IF /\ ~isNaN(parseInt(bpm1)) /\ ~isNaN(parseInt(bpm2))
       /\ ~NearRatio(parseInt(bpm1).n, parseInt(bpm2).n, 20)
       /\ NearRatio(parseInt(bpm2).n, parseInt(bpm1).n, 20)
       /\ Abs(parseInt(bpm1).n - parseInt(bpm2).n) > 5
    THEN linearTiers(Abs(parseInt(bpm1).n - parseInt(bpm2).n))
    ELSE classifyTempos(parseInt(bpm1), parseInt(bpm2))

calculateBpmCompatibility(bpm1, bpm2) ==
    classifyTempos(parseInt(bpm1), parseInt(bpm2))

(***************************************************************************)
(* calculateOverallCompatibility and its helpers                           *)
(***************************************************************************)
\* the descriptions literal (each text follows an emoji, left out here)
getCompatibilityDescription(compatibility) ==
    CASE compatibility = "excellent" -> "Perfect for mixing - seamless transition"
      [] compatibility = "very-good" -> "Great compatibility - smooth mixing"
      [] compatibility = "good" -> "Good match - will mix well together"
      [] compatibility = "fair" -> "Decent compatibility - requires some skill"
      [] compatibility = "acceptable" -> "Challenging but possible to mix"
      [] compatibility = "poor" -> "Difficult to mix harmonically"
      [] OTHER -> "Unknown compatibility"

\* the reasons of the model that hold the word "double": of the reasons
\* calculateBpmCompatibility builds only the first, and one a caller passes
ReasonsHoldingDouble == {"Half/double BPM relationship", "double time"}

\* reason.includes("double"), which is case-sensitive
includesDouble(reason) == reason \in ReasonsHoldingDouble

\* the first test with > for >=
keyAdvice_strict(keyCompat) ==
    IF keyCompat.score > 80
    THEN "Keys mix naturally - no pitch adjustment needed"
    ELSE IF keyCompat.score >= 60
    THEN "Keys are related - consider key-lock or harmonic mixing"
    ELSE "Use camelot wheel or key-lock for best results"

keyAdvice(keyCompat) ==
    IF keyCompat.score >= 80
    THEN "Keys mix naturally - no pitch adjustment needed"
    ELSE IF keyCompat.score >= 60
    THEN "Keys are related - consider key-lock or harmonic mixing"
    ELSE "Use camelot wheel or key-lock for best results"

\* the test of the reason made before the tests of the score
bpmAdvice_reasonFirst(bpmCompat) ==
    IF includesDouble(bpmCompat.reason)
    THEN "Half/double BPM - perfect for creative transitions"
    ELSE IF bpmCompat.score >= 90
    THEN "BPMs are perfectly matched for mixing"
    ELSE IF bpmCompat.score >= 70
    THEN "BPMs are close - minimal tempo adjustment needed"
    ELSE "Use tempo sync or beatmatching for smooth transition"

bpmAdvice(bpmCompat) ==
    IF bpmCompat.score >= 90
    THEN "BPMs are perfectly matched for mixing"
    ELSE IF bpmCompat.score >= 70
    THEN "BPMs are close - minimal tempo adjustment needed"
    ELSE IF includesDouble(bpmCompat.reason)
    THEN "Half/double BPM - perfect for creative transitions"
    ELSE "Use tempo sync or beatmatching for smooth transition"

getMixingAdvice(keyCompat, bpmCompat) == <<keyAdvice(keyCompat), bpmAdvice(bpmCompat)>>

\* the 60/40 weights exchanged
overallScoreTenths_swapped(keyScore, bpmScore) == keyScore * 4 + bpmScore * 6

\* keyScore * 0.6 + bpmScore * 0.4, held in tenths.  Every score the two
\* classifiers return is a multiple of 5, and for each pair of them the double
\* products and their sum are the exact integer-valued results.
overallScoreTenths(keyScore, bpmScore) == keyScore * 6 + bpmScore * 4

\* Math.round of a non-negative value held in tenths: floor(x + 0.5)
MathRound(tenths) == (tenths + 5) \div 10

\* the first threshold tested with > for >=
overallTier_strict(tenths) ==
    IF tenths > 900 THEN "excellent"
    ELSE IF tenths >= 750 THEN "very-good"
    ELSE IF tenths >= 600 THEN "good"
    ELSE IF tenths >= 400 THEN "fair"
    ELSE IF tenths >= 250 THEN "acceptable"
    ELSE "poor"

\* the if / else-if chain on the unrounded overallScore
overallTier(tenths) ==
    IF tenths >= 900 THEN "excellent"
    ELSE IF tenths >= 750 THEN "very-good"
    ELSE IF tenths >= 600 THEN "good"
    ELSE IF tenths >= 400 THEN "fair"
    ELSE IF tenths >= 250 THEN "acceptable"
    ELSE "poor"

\* the overall part of the returned object
overallOf(overallCompatibility, overallScore) ==
    [compatibility |-> overallCompatibility,
     score |-> MathRound(overallScore),
     description |-> getCompatibilityDescription(overallCompatibility)]

\* the returned object, from the two sub-results and the weighted sum
verdictOf(keyCompatibility, bpmCompatibility, overallScore) ==
    [overall |-> overallOf(overallTier(overallScore), overallScore),
     key |-> keyCompatibility,
     bpm |-> bpmCompatibility,
     mixing_advice |-> getMixingAdvice(keyCompatibility, bpmCompatibility)]

combineCompatibility(keyCompatibility, bpmCompatibility) ==
    verdictOf(keyCompatibility, bpmCompatibility,
              overallScoreTenths(keyCompatibility.score, bpmCompatibility.score))

\* calculateOverallCompatibility giving up on the tempo when the keys are unknown
calculateOverallCompatibility_abort(table, track1, track2) ==
    IF calculateKeyCompatibility(table, track1.key, track2.key).compatibility = "unknown"
    THEN combineCompatibility(
            calculateKeyCompatibility(table, track1.key, track2.key),
            BpmResult("unknown", 0, "Invalid BPM data"))
    ELSE combineCompatibility(
            calculateKeyCompatibility(table, track1.key, track2.key),
            calculateBpmCompatibility(track1.bpm, track2.bpm))

\* track1 and track2 are { key, bpm }
calculateOverallCompatibility(table, track1, track2) ==
    combineCompatibility(calculateKeyCompatibility(table, track1.key, track2.key),
                         calculateBpmCompatibility(track1.bpm, track2.bpm))

(***************************************************************************)
(* findCompatibleTracks                                                    *)
(***************************************************************************)
\* track.key_info?.key and track.key_info?.bpm
keyInfoField(track, field) ==
    IF track.key_info.type \in {"undefined", "null"} THEN Undefined
    ELSE track.key_info[field]

\* the { key, bpm } object built from a track
keyAndBpm(track) ==
    [key |-> keyInfoField(track, "key"), bpm |-> keyInfoField(track, "bpm")]

\* an object literal that lists the fields it copies instead of spreading
withCompatibilityInfo_listedFields(track, compatibility) ==
    [id |-> track.id, compatibility_info |-> compatibility]

\* { ...track, compatibility_info: compatibility }
withCompatibilityInfo(track, compatibility) ==
    [f \in DOMAIN track \cup {"compatibility_info"} |->
        IF f = "compatibility_info" THEN compatibility ELSE track[f]]

\* the body of the if with > for >=
pushIfCompatible_strict(track, compatibility, minScore) ==
    IF compatibility.overall.score > minScore
    THEN <<withCompatibilityInfo(track, compatibility)>>
    ELSE <<>>

\* if (compatibility.overall.score >= minScore) compatibleTracks.push(...)
pushIfCompatible(track, compatibility, minScore) ==
    IF compatibility.overall.score >= minScore
    THEN <<withCompatibilityInfo(track, compatibility)>>
    ELSE <<>>

\* the for-of loop: score each candidate, push those at or above minScore
RECURSIVE collectCompatible(_, _, _, _)
collectCompatible(table, referenceTrack, candidateTracks, minScore) ==
    IF candidateTracks = <<>> THEN <<>>
    ELSE pushIfCompatible(Head(candidateTracks),
            calculateOverallCompatibility(table, keyAndBpm(referenceTrack),
                                          keyAndBpm(Head(candidateTracks))),
            minScore)
         \o collectCompatible(table, referenceTrack, Tail(candidateTracks), minScore)

\* the comparator of the sort: b.score - a.score
compareByScore(a, b) ==
    b.compatibility_info.overall.score - a.compatibility_info.overall.score

\* Array.prototype.sort, which is stable: an element goes before the first
\* element the comparator orders strictly after it
RECURSIVE insertSorted(_, _)
insertSorted(x, sorted) ==
    IF sorted = <<>> THEN <<x>>
    ELSE IF compareByScore(x, Head(sorted)) < 0 THEN <<x>> \o sorted
    ELSE <<Head(sorted)>> \o insertSorted(x, Tail(sorted))

\* a sort that takes the elements from the front: equal scores come out reversed
RECURSIVE sortTracks_unstable(_)
sortTracks_unstable(tracks) ==
    IF tracks = <<>> THEN <<>>
    ELSE insertSorted(Head(tracks), sortTracks_unstable(Tail(tracks)))

RECURSIVE sortTracks(_)
sortTracks(tracks) ==
    IF tracks = <<>> THEN <<>>
    ELSE insertSorted(tracks[Len(tracks)], sortTracks(SubSeq(tracks, 1, Len(tracks) - 1)))

Returned(value) == [threw |-> FALSE, value |-> value]
Thrown(error) == [threw |-> TRUE, error |-> error]

\* a default threshold below the 40 of an exact tempo match across an invalid key
minScoreOrDefault_lowDefault(minScoreArg) ==
    IF minScoreArg = Undefined THEN 38 ELSE minScoreArg.n

\* the default parameter value: minScore = 40 when the argument is undefined
minScoreOrDefault(minScoreArg) ==
    IF minScoreArg = Undefined THEN 40 ELSE minScoreArg.n

\* a ranker that takes an absent candidate list for an empty one
findCompatibleTracks_absentAsEmpty(table, referenceTrack, candidateTracks, minScoreArg) ==
    IF candidateTracks.type \in {"undefined", "null"}
    THEN Returned(<<>>)
    ELSE Returned(sortTracks(collectCompatible(table, referenceTrack,
                    candidateTracks.items, minScoreOrDefault(minScoreArg))))

\* Iterating a null or undefined candidate list throws a TypeError.
findCompatibleTracks(table, referenceTrack, candidateTracks, minScoreArg) ==
    IF candidateTracks.type \in {"undefined", "null"}
    THEN Thrown("TypeError")
    ELSE Returned(sortTracks(collectCompatible(table, referenceTrack,
                    candidateTracks.items, minScoreOrDefault(minScoreArg))))

(***************************************************************************)
(* generateCompatibleSearchSuggestions                                     *)
(***************************************************************************)
\* { key, reason, score }
Suggestion(key, reason, score) ==
    [key |-> Str(key), reason |-> reason, score |-> score]

\* the suggestions pushed for a list of [key, position] entries
toSuggestions(entries, reason, score) ==
    [i \in 1..Len(entries) |-> Suggestion(entries[i][1], reason, score)]

\* the first test without && key !== parsed.key
isRelativeEntry_withSelf(entry, parsed) ==
    Num(entry[2]) = parsed.circlePosition

\* position === parsed.circlePosition && key !== parsed.key
isRelativeEntry(entry, parsed) ==
    Num(entry[2]) = parsed.circlePosition /\ Str(entry[1]) # parsed.key

\* (parsed.circlePosition + k) % 12, NaN when the position is undefined
positionPlus(parsed, k) ==
    IF parsed.circlePosition = Undefined THEN NaN
    ELSE Num((parsed.circlePosition.n + k) % 12)

adjacentPositions(parsed) == <<positionPlus(parsed, 1), positionPlus(parsed, 11)>>

\* Array.prototype.includes
includes(array, value) == \E i \in 1..Len(array) : array[i] = value

isAdjacentEntry(entry, parsed) == includes(adjacentPositions(parsed), Num(entry[2]))

\* Array.prototype.slice(0, end)
sliceFirst(array, end) ==
    IF Len(array) <= end THEN array ELSE SubSeq(array, 1, end)

\* the two forEach loops over Object.entries(this.circleOfFifths)
collectSuggestions(table, parsed) ==
    toSuggestions(SelectSeq(table, LAMBDA entry : isRelativeEntry(entry, parsed)),
                  "Relative major/minor", 95)
    \o toSuggestions(SelectSeq(table, LAMBDA entry : isAdjacentEntry(entry, parsed)),
                     "Adjacent in circle of fifths", 80)

suggestionsFor(table, parsed) ==
    IF ~parsed.isValid THEN <<>>
    ELSE sliceFirst(collectSuggestions(table, parsed), 10)

\* referenceBpm is not read
generateCompatibleSearchSuggestions(table, referenceKey, referenceBpm) ==
    suggestionsFor(table, parseKey(table, referenceKey))

(***************************************************************************)
(* Inputs.                                                                 *)
(***************************************************************************)
NoteLetters == {"A", "B", "C", "D", "E", "F", "G"}
Accidentals == {<<>>, <<"#">>, <<"b">>}
\* the ways the inputs write the mode
ModeForms == {<<>>, <<"m">>, <<" ", "M", "a", "j", "o", "r">>,
              <<" ", "m", "i", "n", "o", "r">>}

\* every note name in sharp and in flat spelling, in every mode form
RegularKeyStrings ==
    {<<l>> \o a \o f : l \in NoteLetters, a \in Accidentals, f \in ModeForms}

\* other spellings the grammar decides: tokens, case, white space
OtherKeyStrings ==
    { <<"C", " ", "m", "a", "j">>, <<"A", " ", "m", "i", "n">>,
      <<"A", "m", "i", "n">>, <<"C", "M">>, <<"B", "b", " ", "M", "I", "N", "O", "R">>,
      <<" ", " ", "C", " ", " ", "M", "a", "j", "o", "r", " ", " ">>,
      <<"C", "\t", "m">>, <<"c", " ", "m", "a", "j", "o", "r">>, <<"a", "m">>,
      <<"b", "b">>, <<"A", "B">>, <<"G", "#", " ", "M", "a", "j", "o", "r">> }

\* getSoundNetAnalysis: the names array, indexed by pitch class
names ==
    << <<"C">>, <<"C", "#">>, <<"D">>, <<"D", "#">>, <<"E">>, <<"F">>,
       <<"F", "#">>, <<"G">>, <<"G", "#">>, <<"A">>, <<"A", "#">>, <<"B">> >>

\* key = `${k} ${m}` with k = names[json.key] and m "Major" or "Minor"
AdapterKeyStrings ==
    {names[i] \o <<" ">> \o m :
        i \in 1..12,
        m \in {<<"M", "a", "j", "o", "r">>, <<"M", "i", "n", "o", "r">>}}

\* strings outside the grammar
MalformedKeyStrings ==
    { <<>>, UNKNOWN, <<" ">>, <<"H">>, <<"C", " ", "d", "i", "m">>,
      <<"C", "m", "a", "j", "7">>, <<"C", "#", "b">>, <<"C", "m", "m">>,
      <<"u", "n", "k", "n", "o", "w", "n">>,
      <<"I", "n", "v", "a", "l", "i", "d", "K", "e", "y", "1", "2", "3">> }

KeyInputs ==
    {Str(s) : s \in RegularKeyStrings \cup OtherKeyStrings \cup MalformedKeyStrings
                        \cup AdapterKeyStrings}
        \cup {Undefined, Null}

\* the decimal numeral of a natural number
RECURSIVE Numeral(_)
Numeral(n) ==
    IF n < 10 THEN <<Digits[n + 1]>>
    ELSE Numeral(n \div 10) \o <<Digits[(n % 10) + 1]>>

\* the tempos of the unit tests, beyond 0..MaxBpm
TestTempos == {60, 80, 120, 122, 123, 128, 135, 155, 180}

NumeralTempoStrings ==
    {Numeral(n) : n \in (0..MaxBpm) \cup TestTempos}
        \cup {<<"-">> \o Numeral(n) : n \in 1..MaxNegBpm}

\* tempo strings that are no plain numeral
OtherTempoStrings ==
    { <<>>, UNKNOWN, <<"a", "b", "c">>, <<"1", "2", "a", "b", "c">>,
      <<" ", "4", "2">>, <<"1", "2", "0", ".", "5">>, <<"+", "7">>, <<"-">>,
      <<"0", "x", "1", "e">>, <<"0", "x">> }

TempoInputs ==
    {Str(s) : s \in NumeralTempoStrings \cup OtherTempoStrings}
        \cup {Undefined, Null}

CMajor == <<"C", " ", "M", "a", "j", "o", "r">>
GMajor == <<"G", " ", "M", "a", "j", "o", "r">>
FMajor == <<"F", " ", "M", "a", "j", "o", "r">>
DMajor == <<"D", " ", "M", "a", "j", "o", "r">>
AMajor == <<"A", " ", "M", "a", "j", "o", "r">>
FSharpMajor == <<"F", "#", " ", "M", "a", "j", "o", "r">>

\* the keys and tempos of the tracks handed to calculateOverallCompatibility:
\* against C Major / 120 they produce every score of the two classifiers
TrackKeys ==
    {Str(s) : s \in {CMajor, <<"A", "m">>, <<"C", "m">>, GMajor, DMajor, AMajor,
                     FSharpMajor, UNKNOWN}} \cup {Undefined}
TrackBpms ==
    {Str(Numeral(n)) : n \in {120, 60, 80, 123, 128, 135, 155, 30}}
        \cup {Str(<<"a", "b", "c">>), Undefined}

PlainTracks == [key : TrackKeys, bpm : TrackBpms]

\* a track record as the routes build it
Track(id, key, bpm) ==
    [id |-> id, key_info |-> [type |-> "object", key |-> Str(key), bpm |-> Str(bpm)]]
BareTrack(id) == [id |-> id, key_info |-> Undefined]

\* a track as an earlier findCompatibleTracks call returned it: it carries the
\* compatibility_info of that call (here against F# Major / 128)
RankedTrack(id, key, bpm) ==
    withCompatibilityInfo(Track(id, key, bpm),
        calculateOverallCompatibility(NewCircleOfFifths,
            [key |-> Str(FSharpMajor), bpm |-> Str(Numeral(128))],
            [key |-> Str(key), bpm |-> Str(bpm)]))

ReferenceTracks ==
    { Track(0, CMajor, Numeral(120)), Track(0, UNKNOWN, Numeral(120)), BareTrack(0) }

CandidatePool ==
    { Track(1, CMajor, Numeral(120)), Track(2, GMajor, Numeral(122)),
      Track(3, FSharpMajor, Numeral(180)), RankedTrack(4, <<"A", "m">>, Numeral(123)),
      Track(5, UNKNOWN, Numeral(120)), Track(6, FMajor, Numeral(122)),
      BareTrack(7) }

Array(items) == [type |-> "array", items |-> items]

RECURSIVE SeqsUpTo(_, _)
SeqsUpTo(S, n) ==
    IF n = 0 THEN {<<>>}
    ELSE LET shorter == SeqsUpTo(S, n - 1)
         IN  shorter \cup {<<x>> \o s : x \in S, s \in {q \in shorter : Len(q) = n - 1}}

CandidateLists == {Array(s) : s \in SeqsUpTo(CandidatePool, MaxCandidates)}
                      \cup {Null, Undefined}

MinScoreArgs == {Undefined} \cup {Num(n) : n \in {0, 60, 86, 101}}

NoRet == [type |-> "none"]

(***************************************************************************)
(* The calls.                                                              *)
(***************************************************************************)
InitParseKey ==
    \E k \in KeyInputs : call = [op |-> "parseKey", keyString |-> k]

InitCalculateKeyCompatibility ==
    \E k1 \in KeyInputs, k2 \in KeyInputs :
        call = [op |-> "calculateKeyCompatibility", key1 |-> k1, key2 |-> k2]

InitCalculateBpmCompatibility ==
    \E b1 \in TempoInputs, b2 \in TempoInputs :
        call = [op |-> "calculateBpmCompatibility", bpm1 |-> b1, bpm2 |-> b2]

InitCalculateOverallCompatibility ==
    \E t1 \in PlainTracks, t2 \in PlainTracks :
        call = [op |-> "calculateOverallCompatibility", track1 |-> t1, track2 |-> t2]

InitFindCompatibleTracks ==
    \E r \in ReferenceTracks, c \in CandidateLists, m \in MinScoreArgs :
        call = [op |-> "findCompatibleTracks", referenceTrack |-> r,
                candidateTracks |-> c, minScore |-> m]

\* the { score, reason } objects handed to getMixingAdvice: the scores around
\* its thresholds and those of the unit tests
AdviceKeyScores == {0, 20, 40, 50, 59, 60, 79, 80, 85, 95, 100}
AdviceBpmScores == {0, 20, 40, 50, 69, 70, 75, 89, 90, 95, 100}
AdviceBpmReasons ==
    {"Moderate", "Close BPM", "Exact BPM match", "Half/double BPM relationship",
     "double time", "Double time"}

InitGetMixingAdvice ==
    \E ks \in AdviceKeyScores, bs \in AdviceBpmScores, br \in AdviceBpmReasons :
        call = [op |-> "getMixingAdvice",
                keyCompat |-> [score |-> ks, reason |-> "Related keys"],
                bpmCompat |-> [score |-> bs, reason |-> br]]

InitGenerateCompatibleSearchSuggestions ==
    \E k \in KeyInputs, b \in {Str(Numeral(120)), Undefined} :
        call = [op |-> "generateCompatibleSearchSuggestions",
                referenceKey |-> k, referenceBpm |-> b]

Init ==
    /\ circleOfFifths = NewCircleOfFifths
    /\ pc = "call"
    /\ ret = NoRet
    /\ fetches = <<>>
    /\ \/ InitParseKey
       \/ InitCalculateKeyCompatibility
       \/ InitCalculateBpmCompatibility
       \/ InitCalculateOverallCompatibility
       \/ InitFindCompatibleTracks
       \/ InitGenerateCompatibleSearchSuggestions
       \/ InitGetMixingAdvice

ParseKey ==
    /\ pc = "call"
    /\ call.op = "parseKey"
    /\ ret' = parseKey(circleOfFifths, call.keyString)
    /\ pc' = "done"
    /\ UNCHANGED <<circleOfFifths, call, fetches>>

CalculateKeyCompatibility ==
    /\ pc = "call"
    /\ call.op = "calculateKeyCompatibility"
    /\ ret' = calculateKeyCompatibility(circleOfFifths, call.key1, call.key2)
    /\ pc' = "done"
    /\ UNCHANGED <<circleOfFifths, call, fetches>>

CalculateBpmCompatibility ==
    /\ pc = "call"
    /\ call.op = "calculateBpmCompatibility"
    /\ ret' = calculateBpmCompatibility(call.bpm1, call.bpm2)
    /\ pc' = "done"
    /\ UNCHANGED <<circleOfFifths, call, fetches>>

CalculateOverallCompatibility ==
    /\ pc = "call"
    /\ call.op = "calculateOverallCompatibility"
    /\ ret' = calculateOverallCompatibility(circleOfFifths, call.track1, call.track2)
    /\ pc' = "done"
    /\ UNCHANGED <<circleOfFifths, call, fetches>>

FindCompatibleTracks ==
    /\ pc = "call"
    /\ call.op = "findCompatibleTracks"
    /\ ret' = findCompatibleTracks(circleOfFifths, call.referenceTrack,
                                   call.candidateTracks, call.minScore)
    /\ pc' = "done"
    /\ UNCHANGED <<circleOfFifths, call, fetches>>

GetMixingAdvice ==
    /\ pc = "call"
    /\ call.op = "getMixingAdvice"
    /\ ret' = getMixingAdvice(call.keyCompat, call.bpmCompat)
    /\ pc' = "done"
    /\ UNCHANGED <<circleOfFifths, call, fetches>>

GenerateCompatibleSearchSuggestions ==
    /\ pc = "call"
    /\ call.op = "generateCompatibleSearchSuggestions"
    /\ ret' = generateCompatibleSearchSuggestions(circleOfFifths, call.referenceKey,
                                                  call.referenceBpm)
    /\ pc' = "done"
    /\ UNCHANGED <<circleOfFifths, call, fetches>>

Next ==
    \/ ParseKey
    \/ CalculateKeyCompatibility
    \/ CalculateBpmCompatibility
    \/ CalculateOverallCompatibility
    \/ FindCompatibleTracks
    \/ GenerateCompatibleSearchSuggestions
    \/ GetMixingAdvice

Spec == Init /\ [][Next]_vars

(***************************************************************************)
(* Properties of calculateKeyCompatibility.                                *)
(***************************************************************************)
KeyCallDone == pc = "done" /\ call.op = "calculateKeyCompatibility"

Parsed1 == parseKey(circleOfFifths, call.key1)
Parsed2 == parseKey(circleOfFifths, call.key2)
BothKeysValid == Parsed1.isValid /\ Parsed2.isValid

\* the pair of canonical identities is a row of the relative-pair table
InRelativeTable(k1, k2) ==
    \E i \in 1..Len(relativePairs) :
        {k1, k2} = {Str(relativePairs[i][1]), Str(relativePairs[i][2])}

SameRootOtherMode(p1, p2) == p1.note = p2.note /\ p1.mode # p2.mode

Positioned(p1, p2) ==
    p1.circlePosition.type = "number" /\ p2.circlePosition.type = "number"

\* min(|p1 - p2|, 12 - |p1 - p2|)
CircularDistance(p1, p2) ==
    LET d == IF p1.circlePosition.n >= p2.circlePosition.n
             THEN p1.circlePosition.n - p2.circlePosition.n
             ELSE p2.circlePosition.n - p1.circlePosition.n
    IN  IF d <= 12 - d THEN d ELSE 12 - d

\* the circle-distance tier of two parsed keys
DistanceTier(p1, p2) ==
    IF Positioned(p1, p2) /\ CircularDistance(p1, p2) = 1
    THEN [compatibility |-> "good", score |-> 80,
          reason |-> "Adjacent keys in circle of fifths"]
    ELSE IF Positioned(p1, p2) /\ CircularDistance(p1, p2) = 2
    THEN [compatibility |-> "fair", score |-> 60,
          reason |-> "Two steps apart in circle of fifths"]
    ELSE IF Positioned(p1, p2) /\ CircularDistance(p1, p2) = 3
    THEN [compatibility |-> "acceptable", score |-> 40,
          reason |-> "Three steps apart in circle of fifths"]
    ELSE [compatibility |-> "poor", score |-> 20,
          reason |-> "Keys are not harmonically related"]

IsMajorMinorPair(p1, p2) ==
    {p1.mode, p2.mode} = {Str(MAJOR), Str(MINOR)}

\* C2: a valid major key and a valid minor key at the same circle position, in
\* whichever spelling of the table each is written, compare as
\* excellent/95/Relative major/minor keys (the calls cover both argument orders).
C2_RelativeInAnySpelling ==
    (/\ KeyCallDone /\ BothKeysValid
     /\ IsMajorMinorPair(Parsed1, Parsed2)
     /\ Positioned(Parsed1, Parsed2)
     /\ Parsed1.circlePosition = Parsed2.circlePosition)
        => ret = [compatibility |-> "excellent", score |-> 95,
                  reason |-> "Relative major/minor keys"]

\* C3: two valid keys that are not identical, not a table relative pair and not
\* parallel get good/80, fair/60, acceptable/40 at circular distance 1, 2, 3,
\* and poor/20 only at distance >= 4 or with a circle position undefined.
C3_PoorOnlyWhenFarApart ==
    (/\ KeyCallDone /\ BothKeysValid
     /\ Parsed1.key # Parsed2.key
     /\ ~InRelativeTable(Parsed1.key, Parsed2.key)
     /\ ~SameRootOtherMode(Parsed1, Parsed2))
        => /\ ret = DistanceTier(Parsed1, Parsed2)
           /\ (ret.compatibility = "poor") =>
                 \/ ~Positioned(Parsed1, Parsed2)
                 \/ CircularDistance(Parsed1, Parsed2) >= 4

\* the key inputs that are absent, empty, the sentinel or outside the grammar
UnparsableKeyInputs ==
    {Undefined, Null} \cup {Str(s) : s \in MalformedKeyStrings}

C5_KeySymmetry ==
    (KeyCallDone /\ BothKeysValid) =>
        ret = calculateKeyCompatibility(circleOfFifths, call.key2, call.key1)

\* a relative pair called with the minor key first
C5_Witness ==
    /\ KeyCallDone
    /\ call.key1 = Str(<<"A", "m">>) /\ call.key2 = Str(<<"C">>)
    /\ ret.score = 95

(***************************************************************************)
(* Properties of calculateBpmCompatibility.                                *)
(***************************************************************************)
BpmCallDone == pc = "done" /\ call.op = "calculateBpmCompatibility"

Tempo1 == parseInt(call.bpm1)
Tempo2 == parseInt(call.bpm2)

\* |num / den - tenths/10| < 0.1, false for a zero divisor
QuotientWithinTenth(num, den, tenths) ==
    /\ den # 0
    /\ 10 * num - tenths * den < (IF den < 0 THEN -den ELSE den)
    /\ tenths * den - 10 * num < (IF den < 0 THEN -den ELSE den)

\* the absolute-difference tiers, with the literal difference in the reason
DifferenceTier(d) ==
    IF d <= 5 THEN [compatibility |-> "excellent", score |-> 95,
        reason |-> "Within 5 BPM (" \o ToString(d) \o " BPM difference)"]
    ELSE IF d <= 10 THEN [compatibility |-> "good", score |-> 80,
        reason |-> "Within 10 BPM (" \o ToString(d) \o " BPM difference)"]
    ELSE IF d <= 20 THEN [compatibility |-> "fair", score |-> 60,
        reason |-> "Within 20 BPM (" \o ToString(d) \o " BPM difference)"]
    ELSE IF d <= 40 THEN [compatibility |-> "acceptable", score |-> 40,
        reason |-> ToString(d) \o " BPM difference"]
    ELSE [compatibility |-> "poor", score |-> 20,
        reason |-> "Large BPM difference (" \o ToString(d) \o " BPM)"]

\* the decision list, given what "near 2" and "near 1.5" mean for a and b
TempoDecision(a, b, nearDouble, nearThreeHalves) ==
    IF a = b
    THEN [compatibility |-> "perfect", score |-> 100, reason |-> "Exact BPM match"]
    ELSE IF nearDouble
    THEN [compatibility |-> "excellent", score |-> 90,
          reason |-> "Half/double BPM relationship"]
    ELSE IF nearThreeHalves
    THEN [compatibility |-> "good", score |-> 75, reason |-> "3/2 BPM relationship"]
    ELSE DifferenceTier(IF a >= b THEN a - b ELSE b - a)

UnknownTempo ==
    [compatibility |-> "unknown", score |-> 0, reason |-> "Invalid BPM data"]

OverallCallDone == pc = "done" /\ call.op = "calculateOverallCompatibility"

\* C7: the overall score is round(keyScore*0.6 + tempoScore*0.4), rounding half
\* up (score - 0.5 <= weighted sum < score + 0.5), an integer in 0..100, and 0
\* when both sub-scores are 0.
C7_OverallScoreIsWeightedRound ==
    OverallCallDone =>
        LET weighted10 == 6 * ret.key.score + 4 * ret.bpm.score
            score == ret.overall.score
        IN  /\ score \in 0..100
            /\ 10 * score - 5 <= weighted10
            /\ weighted10 < 10 * score + 5
            /\ (ret.key.score = 0 /\ ret.bpm.score = 0) => score = 0

\* adjacent keys (80) and tempos 3 BPM apart (95): 48 + 38 = 86
C7_Witness ==
    /\ OverallCallDone
    /\ ret.key.score = 80 /\ ret.bpm.score = 95
    /\ ret.overall.score = 86

\* the tier of a reported (rounded) score
TierOfScore(score) ==
    CASE score >= 90 -> "excellent"
      [] score < 90 /\ score >= 75 -> "very-good"
      [] score < 75 /\ score >= 60 -> "good"
      [] score < 60 /\ score >= 40 -> "fair"
      [] score < 40 /\ score >= 25 -> "acceptable"
      [] score < 25 -> "poor"

\* C8: the overall label is the tier of the reported overall score.
C8_LabelMatchesReportedScore ==
    OverallCallDone => ret.overall.compatibility = TierOfScore(ret.overall.score)

\* same key (100) with a 3/2 tempo (75): exactly 90, excellent
C8_Witness ==
    /\ OverallCallDone
    /\ ret.key.score = 100 /\ ret.bpm.score = 75
    /\ ret.overall.score = 90 /\ ret.overall.compatibility = "excellent"

KeyPairInvalid ==
    \/ ~parseKey(circleOfFifths, call.track1.key).isValid
    \/ ~parseKey(circleOfFifths, call.track2.key).isValid
TempoPairInvalid ==
    isNaN(parseInt(call.track1.bpm)) \/ isNaN(parseInt(call.track2.bpm))

\* C9: with the key pair invalid and the tempo pair valid, the verdict holds
\* unknown/0 for the key, the tempo result as calculateBpmCompatibility gives
\* it alone, and the overall score 0.4 * tempoScore; with the tempo pair
\* invalid and the key pair valid, the mirror image with 0.6 * keyScore.
C9_OneSideInvalid ==
    OverallCallDone =>
        /\ (KeyPairInvalid /\ ~TempoPairInvalid) =>
              /\ ret.key = [compatibility |-> "unknown", score |-> 0,
                            reason |-> "Invalid key data"]
              /\ ret.bpm = calculateBpmCompatibility(call.track1.bpm, call.track2.bpm)
              /\ ret.bpm.compatibility # "unknown"
              /\ 10 * ret.overall.score = 4 * ret.bpm.score
        /\ (TempoPairInvalid /\ ~KeyPairInvalid) =>
              /\ ret.bpm = UnknownTempo
              /\ ret.key = calculateKeyCompatibility(circleOfFifths,
                                call.track1.key, call.track2.key)
              /\ ret.key.compatibility # "unknown"
              /\ 10 * ret.overall.score = 6 * ret.key.score

\* an unknown key against tempos 120 and 123: the tempo side scores 95, overall 38
C9_Witness ==
    /\ OverallCallDone
    /\ call.track1.key = Str(UNKNOWN)
    /\ ret.key.compatibility = "unknown"
    /\ ret.bpm.score = 95
    /\ ret.overall.score = 38

(***************************************************************************)
(* Properties of findCompatibleTracks.                                     *)
(***************************************************************************)
FindReturned ==
    pc = "done" /\ call.op = "findCompatibleTracks" /\ ~ret.threw

\* the threshold in force
EffectiveMinScore ==
    IF call.minScore = Undefined THEN 40 ELSE call.minScore.n

\* the overall score of a candidate against the reference of the call
ScoreAgainstReference(track) ==
    calculateOverallCompatibility(circleOfFifths,
        [key |-> keyInfoField(call.referenceTrack, "key"),
         bpm |-> keyInfoField(call.referenceTrack, "bpm")],
        [key |-> keyInfoField(track, "key"),
         bpm |-> keyInfoField(track, "bpm")]).overall.score

Occurrences(tracks, id) == Cardinality({i \in 1..Len(tracks) : tracks[i].id = id})

\* C10: a candidate is retained if and only if its overall score is >= minScore:
\* each candidate is returned as many times as it is listed when its score
\* reaches the threshold and not at all otherwise; with minScore 0 the result
\* has as many entries as the candidate list, with minScore 101 it is empty, and
\* an empty candidate list gives an empty list.
C10_RetainedIffAtLeastMinScore ==
    FindReturned =>
        LET candidates == call.candidateTracks.items
        IN  /\ \A t \in CandidatePool :
                  Occurrences(ret.value, t.id) =
                      IF ScoreAgainstReference(t) >= EffectiveMinScore
                      THEN Occurrences(candidates, t.id) ELSE 0
            /\ Len(ret.value) =
                  Cardinality({i \in 1..Len(candidates) :
                      ScoreAgainstReference(candidates[i]) >= EffectiveMinScore})
            /\ (call.minScore = Num(0)) => Len(ret.value) = Len(candidates)
            /\ (call.minScore = Num(101)) => ret.value = <<>>
            /\ (candidates = <<>>) => ret.value = <<>>

\* threshold 86: the candidate scoring exactly 86 stays, the one scoring 42 goes
C10_Witness ==
    /\ FindReturned
    /\ call.minScore = Num(86)
    /\ call.referenceTrack = Track(0, CMajor, Numeral(120))
    /\ call.candidateTracks =
           Array(<<Track(3, FSharpMajor, Numeral(180)), Track(2, GMajor, Numeral(122))>>)
    /\ Len(ret.value) = 1
    /\ ret.value[1].id = 2
    /\ ret.value[1].compatibility_info.overall.score = 86

AttachedScore(track) == track.compatibility_info.overall.score

\* the scores of the candidates of the call, by position in the input list
CandidateScores ==
    [i \in 1..Len(call.candidateTracks.items) |->
        ScoreAgainstReference(call.candidateTracks.items[i])]

\* how many retained candidates must come before the one at input position k:
\* those of a higher score, and those of the same score listed earlier
Predecessors(scores, k) ==
    Cardinality({j \in DOMAIN scores :
        /\ scores[j] >= EffectiveMinScore
        /\ scores[j] > scores[k] \/ (scores[j] = scores[k] /\ j < k)})

\* every retained candidate stands right after its predecessors
StableDescending(returned, candidates, scores) ==
    /\ Len(returned) =
           Cardinality({k \in DOMAIN scores : scores[k] >= EffectiveMinScore})
    /\ \A k \in DOMAIN scores :
           scores[k] >= EffectiveMinScore =>
               /\ returned[Predecessors(scores, k) + 1].id = candidates[k].id
               /\ AttachedScore(returned[Predecessors(scores, k) + 1]) = scores[k]

\* C11: the returned list is ordered by overall score non-increasing, and
\* candidates of equal score keep the relative order they have in the input
\* list.
C11_SortedDescendingStable ==
    FindReturned =>
        /\ \A i \in 1..(Len(ret.value) - 1) :
              AttachedScore(ret.value[i]) >= AttachedScore(ret.value[i + 1])
        /\ StableDescending(ret.value, call.candidateTracks.items, CandidateScores)

\* F Major/122 and G Major/122 both score 86 against C Major/120 and C Major/120
\* scores 100: given as F, C, G the list comes back as C, F, G
C11_Witness ==
    /\ FindReturned
    /\ call.referenceTrack = Track(0, CMajor, Numeral(120))
    /\ call.candidateTracks =
           Array(<<Track(6, FMajor, Numeral(122)), Track(1, CMajor, Numeral(120)),
                   Track(2, GMajor, Numeral(122))>>)
    /\ Len(ret.value) = 3
    /\ ret.value[1].id = 1 /\ ret.value[2].id = 6 /\ ret.value[3].id = 2
    /\ AttachedScore(ret.value[2]) = AttachedScore(ret.value[3])


\* the verdict of a candidate against the reference of the call
VerdictAgainstReference(track) ==
    calculateOverallCompatibility(circleOfFifths,
        [key |-> keyInfoField(call.referenceTrack, "key"),
         bpm |-> keyInfoField(call.referenceTrack, "bpm")],
        [key |-> keyInfoField(track, "key"),
         bpm |-> keyInfoField(track, "bpm")])

\* element has the fields of candidate plus compatibility_info, which holds the
\* verdict, and every field among carried has the candidate's value
IsCopyCarrying(element, candidate, carried) ==
    /\ DOMAIN element = DOMAIN candidate \cup {"compatibility_info"}
    /\ \A f \in carried : element[f] = candidate[f]
    /\ element.compatibility_info = VerdictAgainstReference(candidate)

\* C12 as stated: each returned element is the copy of one input candidate,
\* with all of the candidate's fields unchanged plus the verdict, and the call
\* leaves the candidate list, the candidates and the reference as they were.
C12_CopiesKeepEveryField ==
    /\ [](FindReturned =>
             \A k \in DOMAIN CandidateScores :
                CandidateScores[k] >= EffectiveMinScore =>
                   IsCopyCarrying(ret.value[Predecessors(CandidateScores, k) + 1],
                                  call.candidateTracks.items[k],
                                  DOMAIN call.candidateTracks.items[k]))
    /\ [][call' = call]_vars

\* C12 (amended): each returned element is the copy of one input candidate,
\* with all of the candidate's fields other than compatibility_info unchanged
\* and compatibility_info holding the verdict (in place of a compatibility_info
\* the candidate came with), and the call leaves the candidate list, the
\* candidates and the reference as they were.
C12_CopiesWithVerdict ==
    /\ [](FindReturned =>
             \A k \in DOMAIN CandidateScores :
                CandidateScores[k] >= EffectiveMinScore =>
                   IsCopyCarrying(ret.value[Predecessors(CandidateScores, k) + 1],
                                  call.candidateTracks.items[k],
                                  DOMAIN call.candidateTracks.items[k]
                                      \ {"compatibility_info"}))
    /\ [][call' = call]_vars

\* a candidate that came with the verdict of an earlier ranking is returned
\* with the verdict of this one; its other fields are the candidate's
C12_Witness ==
    /\ FindReturned
    /\ call.referenceTrack = Track(0, CMajor, Numeral(120))
    /\ call.candidateTracks = Array(<<RankedTrack(4, <<"A", "m">>, Numeral(123))>>)
    /\ Len(ret.value) = 1
    /\ ret.value[1].id = 4
    /\ ret.value[1].key_info = Track(4, <<"A", "m">>, Numeral(123)).key_info
    /\ ret.value[1].compatibility_info
           # RankedTrack(4, <<"A", "m">>, Numeral(123)).compatibility_info
    /\ ret.value[1].compatibility_info.overall.score = 95


(***************************************************************************)
(* Properties of parseKey.                                                 *)
(***************************************************************************)
ParseKeyDone == pc = "done" /\ call.op = "parseKey"

\* white space, then nothing or a mode token in any case
IsModeSuffix(rest) ==
    \E w \in 0..Len(rest) :
        /\ \A i \in 1..w : IsWhiteSpace(rest[i])
        /\ \/ w = Len(rest)
           \/ toLowerCase(SubSeq(rest, w + 1, Len(rest))) \in
                  {MAJOR, MINOR, MAJ, MIN, M}

\* the grammar as stated: an uppercase letter A-G, an optional # or b, an
\* optional mode token in any case that white space may precede
InStatedGrammar(s) ==
    /\ Len(s) >= 1
    /\ s[1] \in {"A", "B", "C", "D", "E", "F", "G"}
    /\ \/ IsModeSuffix(SubSeq(s, 2, Len(s)))
       \/ /\ Len(s) >= 2
          /\ s[2] \in {"#", "b"}
          /\ IsModeSuffix(SubSeq(s, 3, Len(s)))

\* C13: parseKey returns isValid = true exactly for the strings that, trimmed,
\* are in the stated grammar (uppercase root letter); every other string, the
\* empty string and "Unknown" included, returns isValid = false with no key and
\* no circle position.
C13_ValidIffUppercaseGrammar ==
    (ParseKeyDone /\ IsStr(call.keyString)) =>
        IF InStatedGrammar(trim(call.keyString.chars))
        THEN ret.isValid
        ELSE /\ ~ret.isValid
             /\ ret.key = Null
             /\ ret.circlePosition = Undefined


\* the mode the token at the end of a valid key string stands for: a valid
\* string ends in its mode token, or in the root note when it has none
StatedMode(s) ==
    IF endsWith(toLowerCase(s), MAJOR) \/ endsWith(toLowerCase(s), MAJ)
    THEN MAJOR
    ELSE IF \/ endsWith(toLowerCase(s), MINOR)
            \/ endsWith(toLowerCase(s), MIN)
            \/ endsWith(toLowerCase(s), M)
    THEN MINOR
    ELSE MAJOR

\* C14: for every valid input the mode is major for the tokens maj and major,
\* minor for min, minor and a bare m (white space before it or not), major when
\* there is no token; and the key is the root note followed by "m" exactly when
\* the mode is minor, the root note alone otherwise.
C14_ModeAndIdentity ==
    (ParseKeyDone /\ ret.isValid) =>
        /\ ret.mode = Str(StatedMode(trim(call.keyString.chars)))
        /\ ret.mode \in {Str(MAJOR), Str(MINOR)}
        /\ ret.key = IF ret.mode = Str(MINOR)
                     THEN Str(ret.note.chars \o <<"m">>)
                     ELSE ret.note

\* "Bb MINOR": minor, identity Bbm
C14_Witness ==
    /\ ParseKeyDone
    /\ call.keyString = Str(<<"B", "b", " ", "M", "I", "N", "O", "R">>)
    /\ ret.isValid
    /\ ret.mode = Str(MINOR)
    /\ ret.key = Str(<<"B", "b", "m">>)


\* the 12 pitch classes in sharp spelling
SharpSpelledNotes ==
    { <<"C">>, <<"C", "#">>, <<"D">>, <<"D", "#">>, <<"E">>, <<"F">>,
      <<"F", "#">>, <<"G">>, <<"G", "#">>, <<"A">>, <<"A", "#">>, <<"B">> }

\* the sharp spelling of the five flat roots of the table
FlatToSharp ==
    { <<<<"D", "b">>, <<"C", "#">>>>, <<<<"E", "b">>, <<"D", "#">>>>,
      <<<<"G", "b">>, <<"F", "#">>>>, <<<<"A", "b">>, <<"G", "#">>>>,
      <<<<"B", "b">>, <<"A", "#">>>> }

\* the root of a valid key string as it is written: the letter, and the
\* accidental sign when one follows it
WrittenRoot(s) ==
    IF Len(s) >= 2 /\ s[2] \in {"#", "b", "B"}
    THEN SubSeq(s, 1, 2)
    ELSE SubSeq(s, 1, 1)

\* C15 as stated: for every valid input (a string of the stated grammar) the
\* root note is one of the 12 pitch classes in sharp spelling, and a root
\* written in flat spelling is returned as its sharp equivalent.
C15_RootInSharpSpelling ==
    (/\ ParseKeyDone /\ ret.isValid
     /\ InStatedGrammar(trim(call.keyString.chars))) =>
        /\ ret.note.chars \in SharpSpelledNotes
        /\ \A p \in FlatToSharp :
              WrittenRoot(trim(call.keyString.chars)) = p[1] =>
                  ret.note.chars = p[2]

\* C15 (amended): for every valid input the root note is the root as the
\* input writes it, the letter followed by the # or b given with it; a root
\* written in flat spelling is returned in flat spelling.
C15_RootAsWritten ==
    (ParseKeyDone /\ ret.isValid) =>
        /\ ret.note.chars = WrittenRoot(trim(call.keyString.chars))
        /\ \A p \in FlatToSharp :
              WrittenRoot(trim(call.keyString.chars)) = p[1] =>
                  (ret.note.chars = p[1] /\ ret.note.chars # p[2])

\* "Bb minor": the root comes back as Bb and the identity as Bbm
C15_Witness ==
    /\ ParseKeyDone
    /\ call.keyString = Str(<<"B", "b", " ", "m", "i", "n", "o", "r">>)
    /\ ret.isValid
    /\ ret.note = Str(<<"B", "b">>)
    /\ ret.key = Str(<<"B", "b", "m">>)


\* C16: parsing is idempotent through the canonical identity: for every valid
\* key string k, parseKey(parseKey(k).key) has the key, note, mode, validity and
\* circle position of parseKey(k).
C16_ParseIdempotent ==
    (ParseKeyDone /\ ret.isValid) =>
        /\ parseKey(circleOfFifths, ret.key).isValid
        /\ parseKey(circleOfFifths, ret.key).key = ret.key
        /\ parseKey(circleOfFifths, ret.key).note = ret.note
        /\ parseKey(circleOfFifths, ret.key).mode = ret.mode
        /\ parseKey(circleOfFifths, ret.key).circlePosition = ret.circlePosition

\* "F# Minor" parses to the identity F#m at position 3, which is another string
\* and parses to the same result
C16_Witness ==
    /\ ParseKeyDone
    /\ call.keyString = Str(<<"F", "#", " ", "m", "i", "n", "o", "r">>)
    /\ ret.key = Str(<<"F", "#", "m">>)
    /\ ret.key # call.keyString
    /\ ret.circlePosition = Num(3)
    /\ parseKey(circleOfFifths, ret.key) = ret


\* the 12 pitch classes in flat spelling
FlatSpelledNotes ==
    { <<"C">>, <<"D", "b">>, <<"D">>, <<"E", "b">>, <<"E">>, <<"F">>,
      <<"G", "b">>, <<"G">>, <<"A", "b">>, <<"A">>, <<"B", "b">>, <<"B">> }

\* the 12 major and the 12 minor keys in sharp and in flat spelling, written as
\* their identity and as the analysis adapter writes them
HandledKeyStrings ==
    {n \o f : n \in SharpSpelledNotes \cup FlatSpelledNotes,
              f \in {<<>>, <<"m">>}}
        \cup AdapterKeyStrings

\* C17: each of the 12 major and 12 minor keys, in sharp and in flat spelling
\* (and every key string the analysis adapter builds), parses to a circle
\* position that is an integer in 0..11.
C17_TableTotal ==
    (ParseKeyDone /\ IsStr(call.keyString)
                  /\ call.keyString.chars \in HandledKeyStrings) =>
        /\ ret.isValid
        /\ ret.circlePosition.type = "number"
        /\ ret.circlePosition.n \in 0..11


(***************************************************************************)
(* Properties of the circle-of-fifths table.                               *)
(***************************************************************************)
\* a table key is a note name, followed by "m" for a minor key
IsMinorName(name) == name[Len(name)] = "m"
NoteOfName(name) == IF IsMinorName(name) THEN SubSeq(name, 1, Len(name) - 1) ELSE name

\* semitones above C of a natural note
NaturalPitch(letter) ==
    CASE letter = "C" -> 0 [] letter = "D" -> 2 [] letter = "E" -> 4
      [] letter = "F" -> 5 [] letter = "G" -> 7 [] letter = "A" -> 9
      [] letter = "B" -> 11

\* the pitch class of a note name: a sharp raises, a flat lowers by a semitone
PitchClass(note) ==
    IF Len(note) = 1 THEN NaturalPitch(note[1])
    ELSE IF note[2] = "#" THEN (NaturalPitch(note[1]) + 1) % 12
    ELSE (NaturalPitch(note[1]) + 11) % 12

PositionOf(name) == Lookup(circleOfFifths, name)

\* C18: for a key of the table (the key parsed, which ranges over all of
\* them): the table key a perfect fifth (7 semitones) above it in the same mode
\* stands one position further modulo 12; another spelling of the same key
\* stands at the same position; and the other member of its row of the
\* relative-pair table stands at the same position.
C18_CircleStructure ==
    (ParseKeyDone /\ ret.isValid /\ ret.circlePosition # Undefined) =>
        /\ \A j \in 1..Len(circleOfFifths) :
              IsMinorName(circleOfFifths[j][1]) = (ret.mode = Str(MINOR)) =>
                /\ (PitchClass(NoteOfName(circleOfFifths[j][1]))
                        = (PitchClass(ret.note.chars) + 7) % 12)
                      => circleOfFifths[j][2] = (ret.circlePosition.n + 1) % 12
                /\ (PitchClass(NoteOfName(circleOfFifths[j][1]))
                        = PitchClass(ret.note.chars))
                      => circleOfFifths[j][2] = ret.circlePosition.n
        /\ \A i \in 1..Len(relativePairs) :
              /\ ret.key = Str(relativePairs[i][1])
                    => PositionOf(relativePairs[i][2]) = ret.circlePosition
              /\ ret.key = Str(relativePairs[i][2])
                    => PositionOf(relativePairs[i][1]) = ret.circlePosition

\* every key of the table and of the relative-pair table is a key parsed
TableKeysAreParsed ==
    /\ \A j \in 1..Len(CircleEntries) : Str(CircleEntries[j][1]) \in KeyInputs
    /\ \A i \in 1..Len(relativePairs) :
          /\ Lookup(CircleEntries, relativePairs[i][1]) # Undefined
          /\ Lookup(CircleEntries, relativePairs[i][2]) # Undefined

\* Gb parsed against the table: position 6, as F#, one before Db and with Ebm
C18_Witness ==
    /\ ParseKeyDone
    /\ TableKeysAreParsed
    /\ call.keyString = Str(<<"G", "b">>)
    /\ ret.circlePosition = Num(6)
    /\ PositionOf(<<"F", "#">>) = Num(6)
    /\ PositionOf(<<"D", "b">>) = Num(7)
    /\ PositionOf(<<"E", "b", "m">>) = Num(6)


(***************************************************************************)
(* Properties of generateCompatibleSearchSuggestions.                      *)
(***************************************************************************)
SuggestDone == pc = "done" /\ call.op = "generateCompatibleSearchSuggestions"

ReferenceParsed == parseKey(circleOfFifths, call.referenceKey)

\* C19: the list is empty when the reference key is invalid; for every valid
\* reference key (one of the handled keys of C17) it is non-empty, has at most
\* 10 entries, and each entry has a key, a reason and a numeric score.
C19_EmptyIffInvalid ==
    SuggestDone =>
        /\ ~ReferenceParsed.isValid => ret = <<>>
        /\ (/\ ReferenceParsed.isValid
            /\ call.referenceKey.chars \in HandledKeyStrings) =>
              /\ Len(ret) \in 1..10
              /\ \A i \in 1..Len(ret) :
                    /\ DOMAIN ret[i] = {"key", "reason", "score"}
                    /\ ret[i].score \in Int

\* the table entries, in table order, whose position is in the set
EntriesAt(positions) ==
    SelectSeq(circleOfFifths, LAMBDA entry : entry[2] \in positions)

\* the positions equal to, and next to, the reference's (none when the
\* reference has no position)
OwnPosition ==
    IF ReferenceParsed.circlePosition = Undefined THEN {}
    ELSE {ReferenceParsed.circlePosition.n}
NeighbourPositions ==
    {(p + 1) % 12 : p \in OwnPosition} \cup {(p - 1) % 12 : p \in OwnPosition}

\* C20: for a valid reference key the list is the table entries at the
\* reference's position with another identity (Relative major/minor, 95), in
\* table order, followed by the table entries at position +1 or -1 modulo 12
\* (Adjacent in circle of fifths, 80), in table order, cut to the first 10; no
\* other entry appears, and never the reference's own identity.
C20_RelativeThenAdjacent ==
    (SuggestDone /\ ReferenceParsed.isValid) =>
        LET relative == SelectSeq(EntriesAt(OwnPosition),
                            LAMBDA entry : Str(entry[1]) # ReferenceParsed.key)
            adjacent == EntriesAt(NeighbourPositions)
            whole == [i \in 1..(Len(relative) + Len(adjacent)) |->
                        IF i <= Len(relative)
                        THEN [key |-> Str(relative[i][1]),
                              reason |-> "Relative major/minor", score |-> 95]
                        ELSE [key |-> Str(adjacent[i - Len(relative)][1]),
                              reason |-> "Adjacent in circle of fifths",
                              score |-> 80]]
        IN  /\ Len(ret) = IF Len(whole) <= 10 THEN Len(whole) ELSE 10
            /\ \A i \in 1..Len(ret) : ret[i] = whole[i]
            /\ \A i \in 1..Len(ret) : ret[i].key # ReferenceParsed.key

\* F# Major: Gb, D#m, Ebm as relatives, then B, C#, Db, G#m, A#m, Bbm
C20_Witness ==
    /\ SuggestDone
    /\ call.referenceKey = Str(FSharpMajor)
    /\ Len(ret) = 9
    /\ ret[1] = [key |-> Str(<<"G", "b">>), reason |-> "Relative major/minor",
                 score |-> 95]
    /\ ret[3].key = Str(<<"E", "b", "m">>) /\ ret[3].score = 95
    /\ ret[4] = [key |-> Str(<<"B">>), reason |-> "Adjacent in circle of fifths",
                 score |-> 80]
    /\ ret[9].key = Str(<<"B", "b", "m">>)


(***************************************************************************)
(* Properties of getMixingAdvice.                                          *)
(***************************************************************************)
AdviceDone == pc = "done" /\ call.op = "getMixingAdvice"

\* C21: getMixingAdvice returns exactly two tips, the key tip first and the
\* tempo tip second, chosen from the sub-scores only: key score >= 80 -> mix
\* naturally, >= 60 -> related / key-lock, else camelot wheel / key-lock; tempo
\* score >= 90 -> perfectly matched, >= 70 -> close, else half/double when the
\* tempo reason contains "double", else tempo sync / beatmatching.
C21_TwoTipsFromSubScores ==
    AdviceDone =>
        /\ Len(ret) = 2
        /\ ret[1] =
              CASE call.keyCompat.score >= 80 ->
                     "Keys mix naturally - no pitch adjustment needed"
                [] call.keyCompat.score \in 60..79 ->
                     "Keys are related - consider key-lock or harmonic mixing"
                [] call.keyCompat.score < 60 ->
                     "Use camelot wheel or key-lock for best results"
        /\ ret[2] =
              CASE call.bpmCompat.score >= 90 ->
                     "BPMs are perfectly matched for mixing"
                [] call.bpmCompat.score \in 70..89 ->
                     "BPMs are close - minimal tempo adjustment needed"
                [] call.bpmCompat.score < 70
                     /\ call.bpmCompat.reason \in
                            {"Half/double BPM relationship", "double time"} ->
                     "Half/double BPM - perfect for creative transitions"
                [] call.bpmCompat.score < 70
                     /\ call.bpmCompat.reason \notin
                            {"Half/double BPM relationship", "double time"} ->
                     "Use tempo sync or beatmatching for smooth transition"

\* a key score of exactly 80 with a tempo score of 50 whose reason holds
\* "double": mix naturally, then the half/double tip
C21_Witness ==
    /\ AdviceDone
    /\ call.keyCompat.score = 80
    /\ call.bpmCompat = [score |-> 50, reason |-> "double time"]
    /\ ret = <<"Keys mix naturally - no pitch adjustment needed",
               "Half/double BPM - perfect for creative transitions">>


(***************************************************************************)
(* Several callers of one engine instance.                                 *)
(*                                                                         *)
(* The routes module builds one engine and every request handler calls it. *)
(* Each caller makes one call; a call runs to completion (the methods are  *)
(* synchronous), and the calls of the callers run in any order.  In this   *)
(* specification call, pc and ret hold one value per caller.               *)
(***************************************************************************)
Callers == 1..NumCallers

\* the calls the callers choose from: each method, on arguments whose result
\* depends on the table
ConcurrentCalls ==
    { [op |-> "parseKey", keyString |-> Str(<<"G", "#", " ", "M", "a", "j", "o", "r">>)],
      [op |-> "parseKey", keyString |-> Str(<<"A", "m">>)],
      [op |-> "calculateKeyCompatibility",
       key1 |-> Str(<<"G", "#">>), key2 |-> Str(GMajor)],
      [op |-> "calculateKeyCompatibility",
       key1 |-> Str(CMajor), key2 |-> Str(GMajor)],
      [op |-> "calculateBpmCompatibility",
       bpm1 |-> Str(Numeral(120)), bpm2 |-> Str(Numeral(60))],
      [op |-> "calculateOverallCompatibility",
       track1 |-> [key |-> Str(CMajor), bpm |-> Str(Numeral(120))],
       track2 |-> [key |-> Str(<<"A", "m">>), bpm |-> Str(Numeral(123))]],
      [op |-> "findCompatibleTracks",
       referenceTrack |-> Track(0, CMajor, Numeral(120)),
       candidateTracks |-> Array(<<Track(3, FSharpMajor, Numeral(180)),
                                   Track(2, GMajor, Numeral(122)),
                                   Track(1, CMajor, Numeral(120))>>),
       minScore |-> Num(60)],
      [op |-> "generateCompatibleSearchSuggestions",
       referenceKey |-> Str(CMajor), referenceBpm |-> Str(Numeral(120))],
      [op |-> "generateCompatibleSearchSuggestions",
       referenceKey |-> Str(<<"G", "#">>), referenceBpm |-> Str(Numeral(120))],
      [op |-> "getMixingAdvice",
       keyCompat |-> [score |-> 80, reason |-> "Related keys"],
       bpmCompat |-> [score |-> 50, reason |-> "Moderate"]] }

InitConcurrent ==
    /\ circleOfFifths = NewCircleOfFifths
    /\ call \in [Callers -> ConcurrentCalls]
    /\ pc = [c \in Callers |-> "call"]
    /\ ret = [c \in Callers |-> NoRet]
    /\ fetches = <<>>

\* caller c is in its call of the method
Calls(c, method) == pc[c] = "call" /\ call[c].op = method

\* the call of caller c returns value; no method assigns to a field of the
\* instance or to its arguments
Returns(c, value) ==
    /\ ret' = [ret EXCEPT ![c] = value]
    /\ pc' = [pc EXCEPT ![c] = "done"]
    /\ UNCHANGED <<circleOfFifths, call, fetches>>

\* parseKey that enters a key it does not find into the table
ParseKeyBy_caching(c) ==
    /\ Calls(c, "parseKey")
    /\ ret' = [ret EXCEPT ![c] = parseKey(circleOfFifths, call[c].keyString)]
    /\ pc' = [pc EXCEPT ![c] = "done"]
    /\ circleOfFifths' =
          IF /\ parseKey(circleOfFifths, call[c].keyString).isValid
             /\ parseKey(circleOfFifths, call[c].keyString).circlePosition = Undefined
          THEN Append(circleOfFifths,
                      <<parseKey(circleOfFifths, call[c].keyString).key.chars, 0>>)
          ELSE circleOfFifths
    /\ UNCHANGED <<call, fetches>>

ParseKeyBy(c) ==
    /\ Calls(c, "parseKey")
    /\ Returns(c, parseKey(circleOfFifths, call[c].keyString))

CalculateKeyCompatibilityBy(c) ==
    /\ Calls(c, "calculateKeyCompatibility")
    /\ Returns(c, calculateKeyCompatibility(circleOfFifths, call[c].key1, call[c].key2))

CalculateBpmCompatibilityBy(c) ==
    /\ Calls(c, "calculateBpmCompatibility")
    /\ Returns(c, calculateBpmCompatibility(call[c].bpm1, call[c].bpm2))

CalculateOverallCompatibilityBy(c) ==
    /\ Calls(c, "calculateOverallCompatibility")
    /\ Returns(c, calculateOverallCompatibility(circleOfFifths, call[c].track1,
                                                call[c].track2))

FindCompatibleTracksBy(c) ==
    /\ Calls(c, "findCompatibleTracks")
    /\ Returns(c, findCompatibleTracks(circleOfFifths, call[c].referenceTrack,
                                       call[c].candidateTracks, call[c].minScore))

GenerateCompatibleSearchSuggestionsBy(c) ==
    /\ Calls(c, "generateCompatibleSearchSuggestions")
    /\ Returns(c, generateCompatibleSearchSuggestions(circleOfFifths,
                      call[c].referenceKey, call[c].referenceBpm))

GetMixingAdviceBy(c) ==
    /\ Calls(c, "getMixingAdvice")
    /\ Returns(c, getMixingAdvice(call[c].keyCompat, call[c].bpmCompat))

NextConcurrent ==
    \E c \in Callers :
        \/ ParseKeyBy(c)
        \/ CalculateKeyCompatibilityBy(c)
        \/ CalculateBpmCompatibilityBy(c)
        \/ CalculateOverallCompatibilityBy(c)
        \/ FindCompatibleTracksBy(c)
        \/ GenerateCompatibleSearchSuggestionsBy(c)
        \/ GetMixingAdviceBy(c)

SpecConcurrent == InitConcurrent /\ [][NextConcurrent]_vars

\* the result of a call made alone on a table
ResultOn(table, aCall) ==
    CASE aCall.op = "parseKey" -> parseKey(table, aCall.keyString)
      [] aCall.op = "calculateKeyCompatibility" ->
            calculateKeyCompatibility(table, aCall.key1, aCall.key2)
      [] aCall.op = "calculateBpmCompatibility" ->
            calculateBpmCompatibility(aCall.bpm1, aCall.bpm2)
      [] aCall.op = "calculateOverallCompatibility" ->
            calculateOverallCompatibility(table, aCall.track1, aCall.track2)
      [] aCall.op = "findCompatibleTracks" ->
            findCompatibleTracks(table, aCall.referenceTrack, aCall.candidateTracks,
                                 aCall.minScore)
      [] aCall.op = "generateCompatibleSearchSuggestions" ->
            generateCompatibleSearchSuggestions(table, aCall.referenceKey,
                                                aCall.referenceBpm)
      [] aCall.op = "getMixingAdvice" ->
            getMixingAdvice(aCall.keyCompat, aCall.bpmCompat)

\* C22: no engine operation writes to the engine instance: in every order in
\* which the callers' calls run, no step changes the circle-of-fifths table (it
\* stays the table the constructor built), and every result is the result the
\* call gives alone on the constructor's table, whatever ran before it.
C22_NoInstanceWrites ==
    /\ [](/\ circleOfFifths = NewCircleOfFifths
          /\ \A c \in Callers :
                pc[c] = "done" => ret[c] = ResultOn(NewCircleOfFifths, call[c]))
    /\ [][circleOfFifths' = circleOfFifths /\ call' = call /\ fetches' = fetches]_vars

\* one caller has parsed "G# Major", which the table does not hold, before the
\* other compared G# with G Major: the comparison still finds no position
C22_Witness ==
    /\ call[1].op = "parseKey"
    /\ call[1].keyString = Str(<<"G", "#", " ", "M", "a", "j", "o", "r">>)
    /\ call[2].op = "calculateKeyCompatibility"
    /\ call[2].key1 = Str(<<"G", "#">>)
    /\ pc[1] = "done" /\ pc[2] = "done"
    /\ ret[1].circlePosition = Undefined
    /\ ret[2].score = 20


(***************************************************************************)
(* An absent candidate list.                                               *)
(***************************************************************************)
FindDone == pc = "done" /\ call.op = "findCompatibleTracks"

AbsentList == call.candidateTracks \in {Null, Undefined}

\* C23: findCompatibleTracks called with a null or undefined candidate list
\* ends in a fault (a thrown TypeError) and returns no value, whatever the
\* reference track and threshold; called with a list it returns a list, so the
\* fault is not confused with a result.
C23_AbsentListIsFault ==
    FindDone =>
        IF AbsentList
        THEN ret = Thrown("TypeError") /\ "value" \notin DOMAIN ret
        ELSE ~ret.threw /\ Len(ret.value) <= Len(call.candidateTracks.items)

\* the candidate list is undefined and the threshold is 0, which every
\* candidate of a list would pass
C23_Witness ==
    /\ FindDone
    /\ call.candidateTracks = Undefined
    /\ call.minScore = Num(0)
    /\ ret.threw


(***************************************************************************)
(* The track route, GET /track/:artist/:song (backend/routes/playlists.js) *)
(*                                                                         *)
(* A behaviour is one request.  call holds what the external services      *)
(* answer to this request (Spotify token, Spotify search, SoundNet, the     *)
(* ChatGPT service, the Spotify searches of the suggested tracks); pc      *)
(* holds the frame of the asynchronous handler: its position and the       *)
(* locals of batchSearchSpotifyTracks; ret is the response.  The searches  *)
(* of one batch run concurrently and settle in any order.                  *)
(***************************************************************************)
\* batchSearchSpotifyTracks(trackQueries, token, batchSize = 5)
batchSize == 5

\* a || b
jsOr(a, b) == IF Falsy(a) THEN b ELSE a

\* the methods of class HarmonicCompatibilityEngine
EngineMethods ==
    {"parseKey", "calculateKeyCompatibility", "areRelativeKeys", "areParallelKeys",
     "calculateCircleDistance", "calculateBpmCompatibility",
     "calculateOverallCompatibility", "getCompatibilityDescription",
     "getMixingAdvice", "findCompatibleTracks", "generateCompatibleSearchSuggestions"}

\* harmonicEngine.findCompatibles(main_track): the engine has no member of this
\* name, and calling undefined throws a TypeError
findCompatibles(main_track) ==
    IF "findCompatibles" \in EngineMethods
    THEN findCompatibleTracks(NewCircleOfFifths, main_track, Undefined, Undefined)
    ELSE Thrown("TypeError")

\* json.mode === "major" || json.mode === 1 ? "Major" : "Minor"; the mode of
\* a response is "major", "minor" or the numeral of a number
modeName(mode) ==
    IF mode \in {"major", "1"} THEN <<"M", "a", "j", "o", "r">>
    ELSE <<"M", "i", "n", "o", "r">>

\* getSoundNetAnalysis on the response resp of the analysis API; the tempo of
\* the response is held in tenths, 0 when it is absent
getSoundNetAnalysis(resp) ==
    IF ~resp.ok
    THEN [key |-> Str(UNKNOWN), bpm |-> Str(UNKNOWN), source |-> "SoundNet"]
    ELSE [key |-> IF resp.key = Null THEN Str(UNKNOWN)
                  ELSE Str(names[resp.key.n + 1] \o <<" ">> \o modeName(resp.mode)),
          bpm |-> IF resp.tempo = 0 THEN Str(UNKNOWN)
                  ELSE Str(Numeral(MathRound(resp.tempo))),
          source |-> "SoundNet"]

\* key_info of the main track
mainKeyInfo(soundnet) ==
    [key |-> jsOr(soundnet.key, Str(UNKNOWN)),
     bpm |-> jsOr(soundnet.bpm, Str(UNKNOWN)),
     source |-> "SoundNet"]

\* the track the Spotify search of the request finds
MainSpotifyTrack == [id |-> "SPOTIFY_MAIN", name |-> "Reference Track"]

\* { ...spotifyTrack, key_info }
mainTrack(env) ==
    [id |-> MainSpotifyTrack.id, name |-> MainSpotifyTrack.name,
     key_info |-> mainKeyInfo(getSoundNetAnalysis(env.soundnet))]

hasKey(key_info) == key_info.key # Str(UNKNOWN)
hasBpm(key_info) == key_info.bpm # Str(UNKNOWN)

\* the responses of the route
InternalServerError == [status |-> 500, body |-> [error |-> "Internal Server Error"]]
TrackNotFound == [status |-> 404, body |-> [error |-> "Track not found on Spotify"]]
Json(main_track, compatible_tracks) ==
    [status |-> 200,
     body |-> [main_track |-> main_track, compatible_tracks |-> compatible_tracks]]

\* the else branch and the inner catch: the answer of the harmonic engine,
\* or the outer catch when the call throws
harmonicFallback(main_track) ==
    IF findCompatibles(main_track).threw THEN InternalServerError
    ELSE Json(main_track, findCompatibles(main_track).value)

\* the track at (0-based) position k of the list of the ChatGPT service; tracks
\* at even positions carry name, estimated_key and estimated_bpm, the others
\* song, key and bpm
GptTrack(k) ==
    [artist |-> Str(<<"A", "r", "t", "i", "s", "t", " ">> \o Numeral(k)),
     name |-> IF k % 2 = 0 THEN Str(<<"S", "o", "n", "g", " ">> \o Numeral(k))
              ELSE Undefined,
     song |-> IF k % 2 = 0 THEN Undefined
              ELSE Str(<<"S", "o", "n", "g", " ">> \o Numeral(k)),
     estimated_key |-> IF k % 2 = 0 THEN Str(names[(k % 12) + 1] \o <<" ", "M", "a", "j", "o", "r">>)
                       ELSE Undefined,
     key |-> IF k % 2 = 0 THEN Undefined
             ELSE Str(names[(k % 12) + 1] \o <<" ", "M", "i", "n", "o", "r">>),
     estimated_bpm |-> IF k % 2 = 0 THEN Str(Numeral(100 + k)) ELSE Undefined,
     bpm |-> IF k % 2 = 0 THEN Undefined ELSE Str(Numeral(100 + k))]

GptTracks(n) == [j \in 1..n |-> GptTrack(j - 1)]

\* what chatgptService.findCompatibleTracks(main_track, 20) settles with
ChatGptOutcomes ==
    {Thrown("Error")} \cup {Returned(GptTracks(n)) : n \in {0, 1, 2, MaxGptTracks}}

\* what the analysis API answers: a failure status, or a key (pitch class or
\* none), a mode and a tempo (in tenths; 0 when absent)
SoundNetResponses ==
    {[ok |-> FALSE, key |-> Null, mode |-> "major", tempo |-> 0]}
        \cup [ok : {TRUE}, key : {Null, Num(0), Num(8)}, mode : {"major", "minor", "1"},
              tempo : {0, 1196}]

\* the positions of the searches that throw
SearchFailures(n) == {S \in SUBSET (0..(n - 1)) : Cardinality(S) <= 2}

RouteEnvs ==
    {e \in [op : {"GET /track/:artist/:song"},
            tokenOk : BOOLEAN,
            search : {"found", "notFound", "throws"},
            soundnetThrows : BOOLEAN,
            soundnet : SoundNetResponses,
            chatgpt : ChatGptOutcomes,
            searchThrows : SearchFailures(MaxGptTracks)] :
        /\ e.soundnetThrows => ~e.soundnet.ok
        /\ e.searchThrows \subseteq
              (IF e.chatgpt.threw THEN {} ELSE 0..(Len(e.chatgpt.value) - 1))}

Frame(at, i, results, settled) ==
    [at |-> at, i |-> i, results |-> results, settled |-> settled]

InitRoute ==
    /\ circleOfFifths = NewCircleOfFifths
    /\ call \in RouteEnvs
    /\ pc = Frame("call", 0, <<>>, <<>>)
    /\ ret = NoRet
    /\ fetches = <<>>

\* the handler up to its response or to the call of batchSearchSpotifyTracks
Responds(res, requests) ==
    /\ ret' = res
    /\ pc' = [pc EXCEPT !.at = "done"]
    /\ fetches' = fetches \o requests

HandleRequest ==
    /\ pc.at = "call"
    /\ UNCHANGED <<circleOfFifths, call>>
    /\ IF ~call.tokenOk
       THEN Responds(InternalServerError, <<"token">>)
       ELSE IF call.search = "throws"
       THEN Responds(InternalServerError, <<"token", "search">>)
       ELSE IF call.search = "notFound"
       THEN Responds(TrackNotFound, <<"token", "search">>)
       ELSE IF call.soundnetThrows
       THEN Responds(InternalServerError, <<"token", "search", "analysis">>)
       ELSE IF ~(hasKey(mainTrack(call).key_info) /\ hasBpm(mainTrack(call).key_info))
       THEN Responds(harmonicFallback(mainTrack(call)), <<"token", "search", "analysis">>)
       ELSE IF call.chatgpt.threw
       THEN Responds(harmonicFallback(mainTrack(call)), <<"token", "search", "analysis">>)
       ELSE /\ pc' = [pc EXCEPT !.at = "loop"]
            /\ fetches' = fetches \o <<"token", "search", "analysis">>
            /\ ret' = ret

\* gptTracks and the queries built from it
gptTracks == call.chatgpt.value
trackQueries ==
    [j \in 1..Len(gptTracks) |->
        [artist |-> gptTracks[j].artist, song |-> jsOr(gptTracks[j].name, gptTracks[j].song), index |-> j - 1]]

\* the queries of the batch that starts at i: trackQueries.slice(i, i + batchSize)
batchOf(i) == SubSeq(trackQueries, i + 1, MinOf(i + batchSize, Len(trackQueries)))

\* for (let i = 0; i < trackQueries.length; i += batchSize): the next batch
\* starts, each of its queries as a promise of its own
StartBatch ==
    /\ pc.at = "loop"
    /\ pc.i < Len(trackQueries)
    /\ pc' = [pc EXCEPT !.at = "batch"]
    /\ UNCHANGED <<circleOfFifths, call, ret, fetches>>

isSettled(index) == \E n \in 1..Len(pc.settled) : pc.settled[n] = index

\* the search of one query of the running batch returns or throws
SearchSettles ==
    /\ pc.at = "batch"
    /\ \E n \in 1..Len(batchOf(pc.i)) :
          /\ ~isSettled(batchOf(pc.i)[n].index)
          /\ pc' = [pc EXCEPT !.settled = Append(@, batchOf(pc.i)[n].index)]
          /\ fetches' = Append(fetches, "search")
    /\ UNCHANGED <<circleOfFifths, call, ret>>

\* what the promise of a query resolves with: the catch of the promise turns
\* a search that throws into a null track
searchResult(query, env) ==
    [index |-> query.index,
     spotifyTrack |-> IF query.index \in env.searchThrows THEN Null
                      ELSE [id |-> <<"SPOTIFY_GPT", query.index>>, name |-> query.song],
     artist |-> query.artist,
     song |-> query.song]

\* results in the order in which the searches settled
batchResults_asSettled(frame, env) ==
    [n \in 1..Len(batchOf(frame.i)) |->
        searchResult(trackQueries[frame.settled[frame.i + n] + 1], env)]

\* await Promise.all(batchPromises): the results in the order of the promises
batchResults(frame, env) ==
    [n \in 1..Len(batchOf(frame.i)) |-> searchResult(batchOf(frame.i)[n], env)]

\* every promise of the batch has settled: results.push(...batchResults)
BatchSettles ==
    /\ pc.at = "batch"
    /\ \A n \in 1..Len(batchOf(pc.i)) : isSettled(batchOf(pc.i)[n].index)
    /\ pc' = [pc EXCEPT !.at = "loop",
                        !.results = @ \o batchResults(pc, call),
                        !.i = @ + batchSize]
    /\ UNCHANGED <<circleOfFifths, call, ret, fetches>>

\* { ...spotifyTrack, key_info: { key, bpm, source } } for position j
compatibleTrack(spotifyTrack, gptTrack) ==
    IF spotifyTrack = Null
    THEN [key_info |-> [key |-> jsOr(jsOr(gptTrack.estimated_key, gptTrack.key), Str(UNKNOWN)),
                        bpm |-> jsOr(jsOr(gptTrack.estimated_bpm, gptTrack.bpm), Str(UNKNOWN)),
                        source |-> "ChatGPT"]]
    ELSE [id |-> spotifyTrack.id, name |-> spotifyTrack.name,
          key_info |-> [key |-> jsOr(jsOr(gptTrack.estimated_key, gptTrack.key), Str(UNKNOWN)),
                        bpm |-> jsOr(jsOr(gptTrack.estimated_bpm, gptTrack.bpm), Str(UNKNOWN)),
                        source |-> "ChatGPT"]]

\* spotifyResults.map(({ spotifyTrack }, i) => ...)
compatibleTracks(spotifyResults) ==
    [j \in 1..Len(spotifyResults) |->
        compatibleTrack(spotifyResults[j].spotifyTrack, gptTracks[j])]

\* the loop is over: batchSearchSpotifyTracks returns and the route answers
Respond ==
    /\ pc.at = "loop"
    /\ pc.i >= Len(trackQueries)
    /\ ret' = Json(mainTrack(call), compatibleTracks(pc.results))
    /\ pc' = [pc EXCEPT !.at = "done"]
    /\ UNCHANGED <<circleOfFifths, call, fetches>>

NextRoute ==
    \/ HandleRequest
    \/ StartBatch
    \/ SearchSettles
    \/ BatchSettles
    \/ Respond

SpecRoute == InitRoute /\ [][NextRoute]_vars

RouteDone == pc.at = "done"

\* the request got past the Spotify search and the analysis
MainTrackBuilt ==
    call.tokenOk /\ call.search = "found" /\ ~call.soundnetThrows

\* the analysis gave no key or no tempo, or the ChatGPT service threw
FallbackCase ==
    /\ MainTrackBuilt
    /\ \/ mainTrack(call).key_info.key = Str(UNKNOWN)
       \/ mainTrack(call).key_info.bpm = Str(UNKNOWN)
       \/ call.chatgpt.threw

\* C24: when the analysis yields an 'Unknown' key or BPM for the main track, or
\* the ChatGPT service throws, the route answers 200 with main_track and the
\* compatible_tracks of the harmonic engine, and not with the 500 response.
C24_FallbackAnswers200 ==
    (RouteDone /\ FallbackCase) =>
        /\ ret.status = 200
        /\ ret.body.main_track = mainTrack(call)
        /\ "compatible_tracks" \in DOMAIN ret.body


\* the queries answered so far and their results agree position by position
ResultsFollowQueries ==
    \A j \in 1..Len(pc.results) :
        /\ pc.results[j].index = j - 1
        /\ pc.results[j].artist = trackQueries[j].artist
        /\ pc.results[j].song = trackQueries[j].song
        /\ (pc.results[j].spotifyTrack = Null) = ((j - 1) \in call.searchThrows)
        /\ (pc.results[j].spotifyTrack # Null) =>
               pc.results[j].spotifyTrack.id = <<"SPOTIFY_GPT", j - 1>>

\* the key and the tempo a track of the ChatGPT service carries
KeyOfGptTrack(track) ==
    IF track.estimated_key # Undefined THEN track.estimated_key ELSE track.key
BpmOfGptTrack(track) ==
    IF track.estimated_bpm # Undefined THEN track.estimated_bpm ELSE track.bpm

\* C26: batchSearchSpotifyTracks returns exactly one result per query, in query
\* order, in whatever order the searches of a batch settle; a search that
\* throws contributes a result with a null track and the other results are
\* kept; so compatible_tracks[i] of the response carries the key and the BPM
\* of gptTracks[i] (and the Spotify track found for it).
C26_OneResultPerQueryInOrder ==
    /\ ResultsFollowQueries
    /\ (pc.at = "loop" /\ pc.i >= Len(trackQueries)) =>
           Len(pc.results) = Len(trackQueries)
    /\ (RouteDone /\ ret.status = 200) =>
           /\ Len(ret.body.compatible_tracks) = Len(gptTracks)
           /\ \A j \in 1..Len(gptTracks) :
                 /\ ret.body.compatible_tracks[j].key_info.key = KeyOfGptTrack(gptTracks[j])
                 /\ ret.body.compatible_tracks[j].key_info.bpm = BpmOfGptTrack(gptTracks[j])
                 /\ ("id" \in DOMAIN ret.body.compatible_tracks[j]) =
                        ((j - 1) \notin call.searchThrows)

\* the five searches of the first batch settled last query first and the
\* third threw; the sixth track ran in a batch of its own; every track of the
\* list carries a tempo of its own
C26_Witness ==
    /\ RouteDone
    /\ ret.status = 200
    /\ pc.settled = <<4, 3, 2, 1, 0, 5>>
    /\ call.searchThrows = {2}
    /\ Len(ret.body.compatible_tracks) = 6
    /\ "id" \notin DOMAIN ret.body.compatible_tracks[3]
    /\ ret.body.compatible_tracks[5].id = <<"SPOTIFY_GPT", 4>>
    /\ ret.body.compatible_tracks[5].key_info.bpm = Str(Numeral(104))
    /\ \A j, k \in 1..6 :
          j # k => BpmOfGptTrack(gptTracks[j]) # BpmOfGptTrack(gptTracks[k])


(***************************************************************************)
(* ChatGPTCompatibilityService.findCompatibleTracks                        *)
(*                                                                         *)
(* A behaviour is one top-level call findCompatibleTracks(referenceTrack,  *)
(* limit).  call holds the arguments and what the API answers to the first *)
(* and to the second request; pc holds the position of the asynchronous    *)
(* method and its retryCount; fetches logs the requests to the API.        *)
(***************************************************************************)
\* what one request to the chat completions API ends in: fetch rejects, the
\* response is not ok, response.json() rejects, the response has no choices,
\* the first choice has no message, or the first choice holds a content
ApiFailures == {"fetchRejects", "notOk", "jsonRejects", "noChoices", "noMessage"}

\* the tracks of a content { "tracks": [...] } with n tracks
ContentTracks(n) ==
    [j \in 1..n |->
        [artist |-> <<"Artist", j>>, song |-> <<"Song", j>>,
         key |-> Str(names[j] \o <<" ", "M", "a", "j", "o", "r">>),
         bpm |-> Str(Numeral(117 + j))]]

\* the contents of a first choice: text that is no JSON and holds no
\* "artist - song" line, or a JSON object with a tracks array
ApiContents ==
    {[json |-> FALSE, tracks |-> <<>>]}
        \cup {[json |-> TRUE, tracks |-> ContentTracks(n)] : n \in 0..2}

ApiOutcomes ==
    {[ok |-> FALSE, failure |-> f] : f \in ApiFailures}
        \cup {[ok |-> TRUE, content |-> c] : c \in ApiContents}

\* parseCompatibilityResponse: the tracks of the content in the unified
\* shape; a text that does not parse goes through fallbackTextParsing, which
\* finds no line to take
parseCompatibilityResponse(content) ==
    IF ~content.json THEN <<>>
    ELSE [j \in 1..Len(content.tracks) |->
            [artist |-> content.tracks[j].artist,
             song |-> content.tracks[j].song,
             estimated_key |-> content.tracks[j].key,
             estimated_bpm |-> content.tracks[j].bpm,
             compatibility_reason |-> "Compatible with reference track",
             compatibility_score |-> 85 - (j - 1),
             source |-> "ChatGPT Music Analysis",
             ai_generated |-> TRUE]]

\* the own properties of the object literal fallbackByGenre: five tracks each
FallbackTrack(artist, song) ==
    [artist |-> artist, song |-> song,
     estimated_key |-> Str(UNKNOWN), estimated_bpm |-> Str(UNKNOWN)]

fallbackByGenre ==
    [x \in {"Modest Mouse", "default"} |->
        IF x = "Modest Mouse"
        THEN << FallbackTrack("The Strokes", "Last Nite"),
                FallbackTrack("Arcade Fire", "Wake Up"),
                FallbackTrack("Interpol", "Evil"),
                FallbackTrack("The National", "Bloodbuzz Ohio"),
                FallbackTrack("Built to Spill", "Carry the Zero") >>
        ELSE << FallbackTrack("The Beatles", "Come Together"),
                FallbackTrack("Radiohead", "Creep"),
                FallbackTrack("Nirvana", "Smells Like Teen Spirit"),
                FallbackTrack("Pearl Jam", "Alive"),
                FallbackTrack("Red Hot Chili Peppers", "Under the Bridge") >>]

\* the properties an object literal inherits from Object.prototype
ObjectPrototypeProperties ==
    {"constructor", "toString", "toLocaleString", "valueOf", "hasOwnProperty",
     "isPrototypeOf", "propertyIsEnumerable", "__proto__"}

\* fallbackByGenre[artist]: an own property, an inherited one (a function or
\* the prototype object, no array), or undefined
genreEntry(artist) ==
    IF artist \in DOMAIN fallbackByGenre THEN Array(fallbackByGenre[artist])
    ELSE IF artist \in ObjectPrototypeProperties THEN [type |-> "inherited"]
    ELSE Undefined

\* referenceTrack.artists?.[0]?.name || referenceTrack.artist_name || "Unknown"
artistOf(referenceTrack) ==
    IF referenceTrack.artists # <<>> /\ referenceTrack.artists[1].name # ""
    THEN referenceTrack.artists[1].name
    ELSE "Unknown"

\* tracks.slice(0, limit) for a limit that is not negative
sliceTo(tracks, limit) == SubSeq(tracks, 1, MinOf(limit, Len(tracks)))

fallbackShape(tracks) ==
    [j \in 1..Len(tracks) |->
        [artist |-> tracks[j].artist, song |-> tracks[j].song,
         estimated_key |-> tracks[j].estimated_key,
         estimated_bpm |-> tracks[j].estimated_bpm,
         compatibility_reason |->
             "Fallback recommendation based on genre/artist similarity",
         compatibility_score |-> 70 - (j - 1),
         source |-> "Fallback Database",
         ai_generated |-> FALSE]]

\* getFallbackTracks: tracks = fallbackByGenre[artist] || fallbackByGenre
\* ["default"], and tracks.slice throws a TypeError when tracks is no array
getFallbackTracks(referenceTrack, limit) ==
    IF genreEntry(artistOf(referenceTrack)) = Undefined
    THEN Returned(fallbackShape(sliceTo(fallbackByGenre["default"], limit)))
    ELSE IF genreEntry(artistOf(referenceTrack)).type = "array"
    THEN Returned(fallbackShape(sliceTo(genreEntry(artistOf(referenceTrack)).items, limit)))
    ELSE Thrown("TypeError")

\* the reference tracks: the track of the service's tests, a track of an
\* artist with a list of its own, a track without artists, and a track whose
\* artist bears the name of an inherited property
ServiceReferenceTracks ==
    {[name |-> "Anti-Hero", artists |-> <<[name |-> "Taylor Swift"]>>,
      key_info |-> [key |-> Str(FMajor), bpm |-> Str(Numeral(96))]],
     [name |-> "Float On", artists |-> <<[name |-> "Modest Mouse"]>>,
      key_info |-> [key |-> Str(FSharpMajor), bpm |-> Str(Numeral(101))]],
     [name |-> "Untitled", artists |-> <<>>,
      key_info |-> [key |-> Str(CMajor), bpm |-> Str(Numeral(120))]],
     [name |-> "Build", artists |-> <<[name |-> "constructor"]>>,
      key_info |-> [key |-> Str(GMajor), bpm |-> Str(Numeral(128))]]}

\* the limit arguments: absent (the default 10), and numbers
LimitArgs == {Undefined, Num(0), Num(2), Num(5), Num(20)}

\* limit = 10
limitOrDefault(limitArg) == IF limitArg = Undefined THEN 10 ELSE limitArg.n

InitService ==
    /\ circleOfFifths = NewCircleOfFifths
    /\ call \in [op : {"ChatGPTCompatibilityService.findCompatibleTracks"},
                 referenceTrack : ServiceReferenceTracks,
                 limit : LimitArgs,
                 answers : [1..2 -> ApiOutcomes]]
    /\ pc = [at |-> "call", retryCount |-> 0]
    /\ ret = NoRet
    /\ fetches = <<>>

\* what the API answers to the request that is issued next
answer == call.answers[Len(fetches) + 1]

\* one run of the try block and of its catch: the request is issued; a
\* content is parsed and returned; a failure is thrown and caught, and the
\* catch schedules the retry when retryCount is 0 and returns the fallback
\* tracks otherwise
Attempt ==
    /\ pc.at = "call"
    /\ fetches' = Append(fetches, "chat/completions")
    /\ IF answer.ok
       THEN /\ ret' = Returned(parseCompatibilityResponse(answer.content))
            /\ pc' = [pc EXCEPT !.at = "done"]
       ELSE IF pc.retryCount = 0
       THEN /\ pc' = [pc EXCEPT !.at = "wait"]
            /\ ret' = ret
       ELSE /\ ret' = getFallbackTracks(call.referenceTrack, limitOrDefault(call.limit))
            /\ pc' = [pc EXCEPT !.at = "done"]
    /\ UNCHANGED <<circleOfFifths, call>>

\* the timer of the catch fires: this.findCompatibleTracks(referenceTrack,
\* limit, 1)
Retry ==
    /\ pc.at = "wait"
    /\ pc' = [at |-> "call", retryCount |-> 1]
    /\ UNCHANGED <<circleOfFifths, call, ret, fetches>>

NextService ==
    \/ Attempt
    \/ Retry

SpecService == InitService /\ [][NextService]_vars

ServiceDone == pc.at = "done"

\* C25: a top-level call makes at most two API requests; a failed first
\* attempt is retried exactly once; when the retry fails too the call
\* resolves, without rejecting, with the fallback tracks (source 'Fallback
\* Database', ai_generated false); a successful attempt ends the call with its
\* tracks and is followed by no request.
C25_RetryOnceThenFallback ==
    /\ Len(fetches) <= 2
    /\ ServiceDone =>
          IF call.answers[1].ok
          THEN /\ Len(fetches) = 1
               /\ ret = Returned(parseCompatibilityResponse(call.answers[1].content))
          ELSE /\ Len(fetches) = 2
               /\ IF call.answers[2].ok
                  THEN ret = Returned(parseCompatibilityResponse(call.answers[2].content))
                  ELSE /\ ~ret.threw
                       /\ \A j \in 1..Len(ret.value) :
                             /\ ret.value[j].source = "Fallback Database"
                             /\ ret.value[j].ai_generated = FALSE


(***************************************************************************)
(* The suggestion generator against the key classifier.                    *)
(***************************************************************************)
\* C27: for every valid reference key k and every entry s returned by
\* generateCompatibleSearchSuggestions(k), calculateKeyCompatibility(k, s.key)
\* has the score of s: 95 for the entries labelled 'Relative major/minor', 80
\* for the entries labelled 'Adjacent in circle of fifths'.
C27_SuggestionsAgreeWithClassifier ==
    (SuggestDone /\ ReferenceParsed.isValid) =>
        \A i \in 1..Len(ret) :
            /\ calculateKeyCompatibility(circleOfFifths, call.referenceKey,
                                         ret[i].key).score = ret[i].score
            /\ ret[i].score = IF ret[i].reason = "Relative major/minor" THEN 95 ELSE 80


(***************************************************************************)
(* The default threshold and candidates across an invalid key.             *)
(***************************************************************************)
\* findCompatibleTracks returned and was called without minScore
DefaultCall == FindReturned /\ call.minScore = Undefined

TempoOfTrack(track) == parseInt(keyInfoField(track, "bpm"))

\* the key of the reference or that of the candidate is invalid
AcrossInvalidKey(track) ==
    \/ ~parseKey(circleOfFifths, keyInfoField(call.referenceTrack, "key")).isValid
    \/ ~parseKey(circleOfFifths, keyInfoField(track, "key")).isValid

TempoUnparsed(track) ==
    isNaN(TempoOfTrack(call.referenceTrack)) \/ isNaN(TempoOfTrack(track))

\* both tempos parse, to the same number
TemposEqual(track) ==
    ~TempoUnparsed(track) /\ TempoOfTrack(call.referenceTrack) = TempoOfTrack(track)

Retained(track) == \E i \in 1..Len(ret.value) : ret.value[i].id = track.id

\* C28: called without minScore, findCompatibleTracks retains a candidate if
\* and only if its overall score is at least 40; a candidate compared across
\* an invalid key is retained if and only if both tempos parse and are equal,
\* and then with the overall score 40; a candidate compared across an invalid
\* key and an invalid tempo has the overall score 0 and the label 'poor' and is
\* not retained.
C28_DefaultThresholdAcrossInvalidKey ==
    DefaultCall =>
        \A i \in 1..Len(call.candidateTracks.items) :
            /\ Retained(call.candidateTracks.items[i]) =
                   (CandidateScores[i] >= 40)
            /\ AcrossInvalidKey(call.candidateTracks.items[i]) =>
                  /\ Retained(call.candidateTracks.items[i]) =
                         TemposEqual(call.candidateTracks.items[i])
                  /\ TemposEqual(call.candidateTracks.items[i]) =>
                         CandidateScores[i] = 40
                  /\ TempoUnparsed(call.candidateTracks.items[i]) =>
                        /\ CandidateScores[i] = 0
                        /\ VerdictAgainstReference(call.candidateTracks.items[i])
                               .overall.compatibility = "poor"
                        /\ ~Retained(call.candidateTracks.items[i])

\* the reference has the key "Unknown" and the tempo 120: of G Major / 122
\* (tempo score 95, overall 38), C Major / 120 and a track without key_info
\* only C Major / 120 is returned, with the score 40
C28_Witness ==
    /\ DefaultCall
    /\ call.referenceTrack = Track(0, UNKNOWN, Numeral(120))
    /\ call.candidateTracks =
           Array(<<Track(2, GMajor, Numeral(122)), Track(1, CMajor, Numeral(120)),
                   BareTrack(7)>>)
    /\ Len(ret.value) = 1
    /\ ret.value[1].id = 1
    /\ ret.value[1].compatibility_info.overall.score = 40
    /\ ret.value[1].compatibility_info.key.compatibility = "unknown"
    /\ ScoreAgainstReference(Track(2, GMajor, Numeral(122))) = 38


C30_VerdictSymmetric ==
    /\ OverallCallDone =>
          ret = calculateOverallCompatibility(circleOfFifths, call.track2, call.track1)
    /\ BpmCallDone => ret = calculateBpmCompatibility(call.bpm2, call.bpm1)
    /\ KeyCallDone => ret = calculateKeyCompatibility(circleOfFifths, call.key2, call.key1)

\* C Major at 60 BPM against A minor at 120: relative keys whichever comes
\* first, and a tempo ratio of 2 the second way round only
C30_Witness ==
    /\ OverallCallDone
    /\ call.track1 = [key |-> Str(CMajor), bpm |-> Str(Numeral(60))]
    /\ call.track2 = [key |-> Str(<<"A", "m">>), bpm |-> Str(Numeral(120))]
    /\ ret.key.score = 95
    /\ ret.bpm.score = 90
    /\ ret.overall.score = 93


====
